---- MODULE Spec2Model ----
(***************************************************************************)
(* Risk Decision Engine of tokenBrain (bot/services/risk/service.py).      *)
(*                                                                         *)
(* Encoding of Python values:                                              *)
(*   - an optional value (bool | None, float | None, int | None) is the    *)
(*     empty sequence << >> for None and the one-element sequence <<v>>    *)
(*     for a known value v; reading the value of None is an evaluation     *)
(*     error, as a comparison with None is a TypeError in Python;          *)
(*   - a holder percentage is an integer number of hundredths of a         *)
(*     percent (25.01 % is 2501), the resolution the data provider rounds  *)
(*     to; liquidity is whole USD, age is whole days;                      *)
(*   - a completeness score is an integer number of twelfths (1.0 is 12,   *)
(*     5/6 is 10, 3/4 is 9), exact for k/6 and c/4;                        *)
(*   - a factor line is the pair <<line, args>> of the line's fixed text   *)
(*     (named by a key) and the sequence of values formatted into it.      *)
(***************************************************************************)
EXTENDS Integers, Sequences, FiniteSets, TLC

VARIABLES thresholds, token_data, result, history, analysis, request

vars == <<thresholds, token_data, result, history, analysis, request>>

-----------------------------------------------------------------------------
(* Optional values *)

None == << >>

Some(v) == <<v>>

IsNone(x) == x = << >>

Val(x) == x[1]

IsTrue(x) == x = <<TRUE>>

-----------------------------------------------------------------------------
(* bot/core/models.py *)

HIGH == "high"

MEDIUM == "medium"

LOW == "low"

RiskLevel == {HIGH, MEDIUM, LOW}

(* RiskResult: the value returned by calculate_risk *)
RiskResult(level, safety, context, signals, factors) ==
    [level |-> level,
     safety_completeness |-> safety,
     context_completeness |-> context,
     risk_signals |-> signals,
     factors |-> factors]

-----------------------------------------------------------------------------
(* bot/services/risk/service.py: module constants *)

WSOL == "So11111111111111111111111111111111111111112"

USDC == "EPjFWdd5AufqSSqeM2qN1xzybapC8G4wEGGkZwyTDt1v"

USDT == "Es9vMFrzaCERmJfrF4H2FYD4KCoNkY11McCe8BenwNYB"

SAFE_PROTOCOL_TOKENS == {WSOL, USDC, USDT}

(* thresholds whose LOW limit of the top-10 share (55%) lies above the HIGH
   limit (50%) *)
RiskThresholds_top10_limits_crossed ==
    [liquidity_high_risk |-> 20000,
     liquidity_low_risk |-> 80000,
     age_high_risk |-> 7,
     age_low_risk |-> 30,
     top1_high_risk |-> 5000,
     top5_high_risk |-> 5000,
     top10_high_risk |-> 5000,
     top1_top2_high_risk |-> 4000,
     top1_low_risk |-> 2500,
     top5_low_risk |-> 4000,
     top10_low_risk |-> 5500,
     holders_low_risk |-> 100]

(* RiskThresholds(): the dataclass defaults, percentages in hundredths *)
RiskThresholds ==
    [liquidity_high_risk |-> 20000,
     liquidity_low_risk |-> 80000,
     age_high_risk |-> 7,
     age_low_risk |-> 30,
     top1_high_risk |-> 5000,
     top5_high_risk |-> 5000,
     top10_high_risk |-> 6500,
     top1_top2_high_risk |-> 4000,
     top1_low_risk |-> 2500,
     top5_low_risk |-> 4000,
     top10_low_risk |-> 5500,
     holders_low_risk |-> 100]

(* the override of tests/conftest.py: custom_risk_service *)
CustomThresholds ==
    [RiskThresholds EXCEPT !.liquidity_high_risk = 10000,
                           !.liquidity_low_risk = 50000,
                           !.age_high_risk = 5,
                           !.age_low_risk = 20,
                           !.top10_high_risk = 5000]

-----------------------------------------------------------------------------
(* _extract_signals with "bool(data.mint_authority_exists)" for the mint
   authority: an unknown mint authority is reported as False *)
_extract_signals_unknown_mint_as_false(data) ==
    [mint_authority_exists |-> IF IsNone(data.mint_authority_exists)
                               THEN Some(FALSE)
                               ELSE data.mint_authority_exists,
     freeze_authority_exists |-> data.freeze_authority_exists,
     top1_holder_percent |-> data.top1_holder_percent,
     top2_holder_percent |-> data.top2_holder_percent,
     top5_holders_percent |-> data.top5_holders_percent,
     top10_holders_percent |-> data.top10_holders_percent,
     age_days |-> data.age_days,
     liquidity_usd |-> data.liquidity_usd,
     metadata_mutable |-> data.metadata_mutable,
     holders |-> data.holders]

(* RiskService._extract_signals *)
_extract_signals(data) ==
    [mint_authority_exists |-> data.mint_authority_exists,
     freeze_authority_exists |-> data.freeze_authority_exists,
     top1_holder_percent |-> data.top1_holder_percent,
     top2_holder_percent |-> data.top2_holder_percent,
     top5_holders_percent |-> data.top5_holders_percent,
     top10_holders_percent |-> data.top10_holders_percent,
     age_days |-> data.age_days,
     liquidity_usd |-> data.liquidity_usd,
     metadata_mutable |-> data.metadata_mutable,
     holders |-> data.holders]

critical_signals ==
    {"mint_authority_exists", "freeze_authority_exists", "top1_holder_percent",
     "top2_holder_percent", "top5_holders_percent", "top10_holders_percent"}

context_signals == {"age_days", "liquidity_usd", "metadata_mutable", "holders"}

(* _calculate_safety_completeness with "if signals.get(s)" in place of
   "if signals.get(s) is not None": False and 0 count as unknown *)
_calculate_safety_completeness_truthy(signals) ==
    LET known == Cardinality({s \in critical_signals :
                     IF s \in {"mint_authority_exists", "freeze_authority_exists"}
                     THEN IsTrue(signals[s])
                     ELSE ~IsNone(signals[s]) /\ Val(signals[s]) # 0})
    IN  (12 * known) \div Cardinality(critical_signals)

(* known / len(critical_signals), in twelfths: 12 * known / 6 *)
_calculate_safety_completeness(signals) ==
    LET known == Cardinality({s \in critical_signals : ~IsNone(signals[s])})
    IN  (12 * known) \div Cardinality(critical_signals)

(* _calculate_context_completeness without the "> 0" rule for holders:
   holders, which is never None, always counts as known *)
_calculate_context_completeness_holders_known(signals) ==
    LET known == Cardinality(
            {s \in context_signals :
                IF s = "holders" THEN TRUE ELSE ~IsNone(signals[s])})
    IN  (12 * known) \div Cardinality(context_signals)

(* known / len(context_signals), in twelfths; holders is an int, never None,
   and counts as known only when > 0 *)
_calculate_context_completeness(signals) ==
    LET known == Cardinality(
            {s \in context_signals :
                IF s = "holders" THEN signals[s] > 0 ELSE ~IsNone(signals[s])})
    IN  (12 * known) \div Cardinality(context_signals)

-----------------------------------------------------------------------------
(* _is_high_risk without its last check (age_days < age_high_risk) *)
_is_high_risk_without_age(t, data) ==
    \/ IsTrue(data.mint_authority_exists)
    \/ IsTrue(data.freeze_authority_exists)
    \/ ~IsNone(data.top1_holder_percent)
       /\ Val(data.top1_holder_percent) > t.top1_high_risk
    \/ ~IsNone(data.top5_holders_percent)
       /\ Val(data.top5_holders_percent) > t.top5_high_risk
    \/ ~IsNone(data.top10_holders_percent)
       /\ Val(data.top10_holders_percent) > t.top10_high_risk
    \/ ~IsNone(data.top1_holder_percent) /\ ~IsNone(data.top2_holder_percent)
       /\ Val(data.top1_holder_percent) + Val(data.top2_holder_percent)
              > t.top1_top2_high_risk
    \/ IsNone(data.age_days) /\ IsNone(data.liquidity_usd)
    \/ ~IsNone(data.liquidity_usd)
       /\ Val(data.liquidity_usd) < t.liquidity_high_risk

(* _is_high_risk with "is not False" in place of "is True" in the mint
   authority check: an unknown mint authority is treated as an active one *)
_is_high_risk_unknown_mint_is_active(t, data) ==
    \/ _is_high_risk_without_age(t, data)
    \/ ~IsNone(data.age_days) /\ Val(data.age_days) < t.age_high_risk
    \/ IsNone(data.mint_authority_exists)

(* _is_high_risk with "<=" in place of "<" in the liquidity check: a
   liquidity exactly at liquidity_high_risk is HIGH *)
_is_high_risk_liquidity_inclusive(t, data) ==
    \/ _is_high_risk_without_age(t, data)
    \/ ~IsNone(data.age_days) /\ Val(data.age_days) < t.age_high_risk
    \/ ~IsNone(data.liquidity_usd)
       /\ Val(data.liquidity_usd) <= t.liquidity_high_risk

(* _is_high_risk with ">=" in place of ">" in the top-5 check *)
_is_high_risk_top5_inclusive(t, data) ==
    \/ _is_high_risk_without_age(t, data)
    \/ ~IsNone(data.age_days) /\ Val(data.age_days) < t.age_high_risk
    \/ ~IsNone(data.top5_holders_percent)
       /\ Val(data.top5_holders_percent) >= t.top5_high_risk

(* RiskService._is_high_risk: the checks in source order, each an early
   "return True" *)
_is_high_risk(t, data) ==
    IF IsTrue(data.mint_authority_exists) THEN TRUE
    ELSE IF IsTrue(data.freeze_authority_exists) THEN TRUE
    ELSE IF ~IsNone(data.top1_holder_percent)
            /\ Val(data.top1_holder_percent) > t.top1_high_risk THEN TRUE
    ELSE IF ~IsNone(data.top5_holders_percent)
            /\ Val(data.top5_holders_percent) > t.top5_high_risk THEN TRUE
    ELSE IF ~IsNone(data.top10_holders_percent)
            /\ Val(data.top10_holders_percent) > t.top10_high_risk THEN TRUE
    ELSE IF ~IsNone(data.top1_holder_percent)
            /\ ~IsNone(data.top2_holder_percent)
            /\ Val(data.top1_holder_percent) + Val(data.top2_holder_percent)
                   > t.top1_top2_high_risk THEN TRUE
    ELSE IF IsNone(data.age_days) /\ IsNone(data.liquidity_usd) THEN TRUE
    ELSE IF ~IsNone(data.liquidity_usd)
            /\ Val(data.liquidity_usd) < t.liquidity_high_risk THEN TRUE
    ELSE IF ~IsNone(data.age_days)
            /\ Val(data.age_days) < t.age_high_risk THEN TRUE
    ELSE FALSE

(* _is_low_risk without the check "top2_holder_percent is None" *)
_is_low_risk_without_top2_check(t, data) ==
    /\ ~IsNone(data.mint_authority_exists)
    /\ ~IsNone(data.freeze_authority_exists)
    /\ ~IsNone(data.top1_holder_percent)
    /\ ~IsNone(data.top5_holders_percent)
    /\ ~IsNone(data.top10_holders_percent)
    /\ ~IsTrue(data.mint_authority_exists)
    /\ ~IsTrue(data.freeze_authority_exists)
    /\ Val(data.top1_holder_percent) <= t.top1_low_risk
    /\ Val(data.top5_holders_percent) <= t.top5_low_risk
    /\ Val(data.top10_holders_percent) <= t.top10_low_risk
    /\ ~IsNone(data.liquidity_usd)
    /\ Val(data.liquidity_usd) >= t.liquidity_low_risk
    /\ ~IsNone(data.age_days)
    /\ Val(data.age_days) >= t.age_low_risk
    /\ data.holders >= t.holders_low_risk

(* _is_low_risk with one more requirement: the metadata is known to be
   immutable *)
_is_low_risk_requiring_immutable_metadata(t, data) ==
    /\ ~IsNone(data.top2_holder_percent)
    /\ _is_low_risk_without_top2_check(t, data)
    /\ data.metadata_mutable = Some(FALSE)

(* RiskService._is_low_risk: the checks in source order, each an early
   "return False" *)
_is_low_risk(t, data) ==
    IF IsNone(data.mint_authority_exists) THEN FALSE
    ELSE IF IsNone(data.freeze_authority_exists) THEN FALSE
    ELSE IF IsNone(data.top1_holder_percent) THEN FALSE
    ELSE IF IsNone(data.top2_holder_percent) THEN FALSE
    ELSE IF IsNone(data.top5_holders_percent) THEN FALSE
    ELSE IF IsNone(data.top10_holders_percent) THEN FALSE
    ELSE IF IsTrue(data.mint_authority_exists) THEN FALSE
    ELSE IF IsTrue(data.freeze_authority_exists) THEN FALSE
    ELSE IF Val(data.top1_holder_percent) > t.top1_low_risk THEN FALSE
    ELSE IF Val(data.top5_holders_percent) > t.top5_low_risk THEN FALSE
    ELSE IF Val(data.top10_holders_percent) > t.top10_low_risk THEN FALSE
    ELSE IF IsNone(data.liquidity_usd) THEN FALSE
    ELSE IF Val(data.liquidity_usd) < t.liquidity_low_risk THEN FALSE
    ELSE IF IsNone(data.age_days) THEN FALSE
    ELSE IF Val(data.age_days) < t.age_low_risk THEN FALSE
    ELSE IF data.holders < t.holders_low_risk THEN FALSE
    ELSE TRUE

-----------------------------------------------------------------------------
(* Formatting of a percentage with f"{x:.0f}": the nearest whole percent,
   a tie going to the even one; x in hundredths *)
Fmt0(x) ==
    LET q == x \div 100
        r == x % 100
    IN  IF r < 50 THEN q
        ELSE IF r > 50 THEN q + 1
        ELSE IF q % 2 = 0 THEN q ELSE q + 1

(* factors.append(line) under a condition *)
AppendIf(cond, line) == IF cond THEN <<line>> ELSE << >>

(* the names collected in missing_social, in source order *)
missing_social(data) ==
    AppendIf(~data.twitter_exists, "Twitter")
    \o AppendIf(~data.telegram_exists, "Telegram")
    \o AppendIf(~data.website_valid, "site")

(* the confidence gate with "<=" in place of "<": a total completeness of
   exactly 0.5 warns too *)
confidence_gate_line_inclusive(data) ==
    LET signals == _extract_signals(data)
        safety_score == _calculate_safety_completeness(signals)
        context_score == _calculate_context_completeness(signals)
    IN  AppendIf(7 * safety_score + 3 * context_score <= 60,
                 <<"confidence_gate", << >> >>)

(* get_risk_factors, the UX confidence gate: total_completeness =
   safety * 0.7 + context * 0.3 < 0.5; with the scores in twelfths this is
   7 * safety + 3 * context < 60 *)
confidence_gate_line(data) ==
    LET signals == _extract_signals(data)
        safety_score == _calculate_safety_completeness(signals)
        context_score == _calculate_context_completeness(signals)
    IN  AppendIf(7 * safety_score + 3 * context_score < 60,
                 <<"confidence_gate", << >> >>)

(* get_risk_factors, full opacity: age and liquidity both unknown *)
full_opacity_line(data) ==
    AppendIf(IsNone(data.age_days) /\ IsNone(data.liquidity_usd),
             <<"full_opacity", << >> >>)

(* the unknown critical signals as an if/elif chain: only the first unknown
   signal gets its note *)
unavailable_notes_first_only(data) ==
    IF IsNone(data.mint_authority_exists)
    THEN << <<"mint_unavailable", << >> >> >>
    ELSE IF IsNone(data.freeze_authority_exists)
    THEN << <<"freeze_unavailable", << >> >> >>
    ELSE IF IsNone(data.top1_holder_percent)
    THEN << <<"top1_unavailable", << >> >> >>
    ELSE IF IsNone(data.top2_holder_percent)
    THEN << <<"top2_unavailable", << >> >> >>
    ELSE IF IsNone(data.top10_holders_percent)
    THEN << <<"top10_unavailable", << >> >> >>
    ELSE << >>

(* get_risk_factors, the unknown critical signals *)
unavailable_notes(data) ==
    AppendIf(IsNone(data.mint_authority_exists), <<"mint_unavailable", << >> >>)
    \o AppendIf(IsNone(data.freeze_authority_exists), <<"freeze_unavailable", << >> >>)
    \o AppendIf(IsNone(data.top1_holder_percent), <<"top1_unavailable", << >> >>)
    \o AppendIf(IsNone(data.top2_holder_percent), <<"top2_unavailable", << >> >>)
    \o AppendIf(IsNone(data.top10_holders_percent), <<"top10_unavailable", << >> >>)

(* get_risk_factors, the authority factors *)
authority_lines(data) ==
    AppendIf(IsTrue(data.mint_authority_exists), <<"mint_active", << >> >>)
    \o AppendIf(IsTrue(data.freeze_authority_exists), <<"freeze_active", << >> >>)

(* get_risk_factors, the top-1 holder *)
top1_line(t, data) ==
    LET top1 == data.top1_holder_percent
    IN  IF ~IsNone(top1) /\ Val(top1) > t.top1_high_risk
        THEN << <<"top1_controls", <<Fmt0(Val(top1))>> >> >> ELSE << >>

(* get_risk_factors, the two largest holders together *)
top1_top2_line(t, data) ==
    LET top1 == data.top1_holder_percent
        top2 == data.top2_holder_percent
    IN  IF ~IsNone(top1) /\ ~IsNone(top2)
           /\ Val(top1) + Val(top2) > t.top1_top2_high_risk
        THEN << <<"top1_top2_control", <<Fmt0(Val(top1) + Val(top2))>> >> >>
        ELSE << >>

(* get_risk_factors, top 5 above top5_high_risk *)
top5_line(t, data) ==
    LET top5 == data.top5_holders_percent
    IN  IF ~IsNone(top5) /\ Val(top5) > t.top5_high_risk
        THEN << <<"top5_control", <<Fmt0(Val(top5))>> >> >> ELSE << >>

(* get_risk_factors, top 10 above top10_high_risk *)
top10_line(t, data) ==
    LET top10 == data.top10_holders_percent
    IN  IF ~IsNone(top10) /\ Val(top10) > t.top10_high_risk
        THEN << <<"top10_high_concentration", <<Fmt0(Val(top10))>> >> >>
        ELSE << >>

(* get_risk_factors, top 5 moderate: top5_low_risk < top5 <= top5_high_risk *)
top5_moderate_line(t, data) ==
    LET top5 == data.top5_holders_percent
    IN  IF ~IsNone(top5) /\ t.top5_low_risk < Val(top5)
           /\ Val(top5) <= t.top5_high_risk
        THEN << <<"top5_moderate", <<Fmt0(Val(top5))>> >> >> ELSE << >>

(* the liquidity factors without the guard "if data.age_days is not None":
   an unknown liquidity always gets its note *)
liquidity_line_unguarded(t, data) ==
    LET liq == data.liquidity_usd
    IN  IF IsNone(liq)
        THEN << <<"liquidity_unknown", << >> >> >>
        ELSE IF Val(liq) < t.liquidity_high_risk
        THEN << <<"liquidity_very_low", <<Val(liq)>> >> >>
        ELSE IF Val(liq) < t.liquidity_low_risk
        THEN << <<"liquidity_moderate", <<Val(liq)>> >> >>
        ELSE << >>

(* get_risk_factors, the liquidity factors *)
liquidity_line(t, data) ==
    LET liq == data.liquidity_usd
    IN  IF IsNone(liq)
        THEN AppendIf(~IsNone(data.age_days), <<"liquidity_unknown", << >> >>)
        ELSE IF Val(liq) < t.liquidity_high_risk
        THEN << <<"liquidity_very_low", <<Val(liq)>> >> >>
        ELSE IF Val(liq) < t.liquidity_low_risk
        THEN << <<"liquidity_moderate", <<Val(liq)>> >> >>
        ELSE << >>

(* get_risk_factors, the age factors *)
age_line(t, data) ==
    LET age == data.age_days
    IN  IF IsNone(age)
        THEN AppendIf(~IsNone(data.liquidity_usd), <<"age_unknown", << >> >>)
        ELSE IF Val(age) < t.age_high_risk
        THEN << <<"age_very_new", <<Val(age)>> >> >>
        ELSE IF Val(age) < t.age_low_risk
        THEN << <<"age_relatively_new", <<Val(age)>> >> >>
        ELSE << >>

(* get_risk_factors, the last four factors: few holders, mutable metadata,
   developer wallet moves, missing social links *)
warning_lines(t, data) ==
    (IF data.holders > 0 /\ data.holders < t.holders_low_risk
     THEN << <<"few_holders", <<data.holders>> >> >> ELSE << >>)
    \o AppendIf(IsTrue(data.metadata_mutable), <<"metadata_mutable", << >> >>)
    \o AppendIf(data.developer_wallet_moves, <<"developer_wallet_moves", << >> >>)
    \o (IF Len(missing_social(data)) >= 2
        THEN << <<"missing_social", missing_social(data)>> >> ELSE << >>)

(* get_risk_factors with "t = RiskThresholds()" in place of
   "t = self._thresholds": the lines are gated by the default thresholds,
   whatever thresholds the service was constructed with *)
get_risk_factors_default_thresholds(t, data) ==
    confidence_gate_line(data)
    \o full_opacity_line(data)
    \o unavailable_notes(data)
    \o authority_lines(data)
    \o top1_line(RiskThresholds, data)
    \o top1_top2_line(RiskThresholds, data)
    \o top5_line(RiskThresholds, data)
    \o top10_line(RiskThresholds, data)
    \o top5_moderate_line(RiskThresholds, data)
    \o liquidity_line(RiskThresholds, data)
    \o age_line(RiskThresholds, data)
    \o warning_lines(RiskThresholds, data)

(* get_risk_factors with the confidence gate evaluated after the other
   factors: the warning is appended last instead of first *)
get_risk_factors_gate_last(t, data) ==
    full_opacity_line(data)
    \o unavailable_notes(data)
    \o authority_lines(data)
    \o top1_line(t, data)
    \o top1_top2_line(t, data)
    \o top5_line(t, data)
    \o top10_line(t, data)
    \o top5_moderate_line(t, data)
    \o liquidity_line(t, data)
    \o age_line(t, data)
    \o warning_lines(t, data)
    \o confidence_gate_line(data)

(* RiskService.get_risk_factors: the appends in source order *)
get_risk_factors(t, data) ==
    confidence_gate_line(data)
    \o full_opacity_line(data)
    \o unavailable_notes(data)
    \o authority_lines(data)
    \o top1_line(t, data)
    \o top1_top2_line(t, data)
    \o top5_line(t, data)
    \o top10_line(t, data)
    \o top5_moderate_line(t, data)
    \o liquidity_line(t, data)
    \o age_line(t, data)
    \o warning_lines(t, data)

-----------------------------------------------------------------------------
(* the result of the SafeList branch of calculate_risk *)
SafeListResult ==
    RiskResult(LOW, 12, 12, [safelist |-> TRUE],
               << <<"base_protocol_token", << >> >> >>)

(* calculate_risk with the SafeList test after the HIGH test instead of
   before every other step *)
calculate_risk_safelist_after_high(t, data) ==
    LET signals == _extract_signals(data)
        safety_score == _calculate_safety_completeness(signals)
        context_score == _calculate_context_completeness(signals)
        factors == get_risk_factors(t, data)
    IN  IF _is_high_risk(t, data)
        THEN RiskResult(HIGH, safety_score, context_score, signals, factors)
        ELSE IF data.address \in SAFE_PROTOCOL_TOKENS
        THEN SafeListResult
        ELSE RiskResult(IF _is_low_risk(t, data) THEN LOW ELSE MEDIUM,
                        safety_score, context_score, signals, factors)

(* the attributes of token_data that calculate_risk reads once the SafeList
   test has failed (_extract_signals, get_risk_factors, _log_risk_check,
   _is_high_risk, _is_low_risk) *)
attributes_read ==
    {"mint_authority_exists", "freeze_authority_exists", "metadata_mutable",
     "top1_holder_percent", "top2_holder_percent", "top5_holders_percent",
     "top10_holders_percent", "age_days", "liquidity_usd", "holders",
     "developer_wallet_moves", "twitter_exists", "telegram_exists",
     "website_valid"}

(* the exception Python raises when an attribute the object does not have is
   read: the call returns no RiskResult *)
AttributeError(names) == [raised |-> "AttributeError", attributes |-> names]

(* RiskService.calculate_risk; the first read of an attribute that token_data
   does not have (in _extract_signals) raises AttributeError *)
calculate_risk(t, data) ==
    IF data.address \in SAFE_PROTOCOL_TOKENS
    THEN SafeListResult
    ELSE IF attributes_read \ DOMAIN data # {}
    THEN AttributeError(attributes_read \ DOMAIN data)
    ELSE LET signals == _extract_signals(data)
             safety_score == _calculate_safety_completeness(signals)
             context_score == _calculate_context_completeness(signals)
             factors == get_risk_factors(t, data)
             level == IF _is_high_risk(t, data) THEN HIGH
                      ELSE IF _is_low_risk(t, data) THEN LOW
                      ELSE MEDIUM
         IN  RiskResult(level, safety_score, context_score, signals, factors)

-----------------------------------------------------------------------------
(* The inputs: TokenData values (bot/core/models.py), as the tests build them:
   a fixture token with at most MaxEdits fields assigned another value, under
   every address of Addresses. *)

MaxEdits == 2

(* an address that is not on the SafeList *)
OtherAddress == "LowRiskToken1111111111111111111111111111111"

(* an address that differs from Wrapped SOL in the case of one letter *)
NearMissAddress == "so11111111111111111111111111111111111111112"

Addresses == SAFE_PROTOCOL_TOKENS \cup {OtherAddress, NearMissAddress}

ThresholdSets == {RiskThresholds, CustomThresholds}

(* TokenData(address=..., holders=0, tx_count_24h=0): every optional field at
   its default None, RugpullFlags() and SocialInfo() at their defaults *)
DefaultToken ==
    [address |-> OtherAddress,
     mint_authority_exists |-> None,
     freeze_authority_exists |-> None,
     metadata_mutable |-> None,
     top1_holder_percent |-> None,
     top2_holder_percent |-> None,
     top5_holders_percent |-> None,
     top10_holders_percent |-> None,
     age_days |-> None,
     liquidity_usd |-> None,
     holders |-> 0,
     developer_wallet_moves |-> FALSE,
     twitter_exists |-> FALSE,
     telegram_exists |-> FALSE,
     website_valid |-> FALSE]

(* a token with every signal known and exactly on the LOW-side cutoff of t,
   and all three social links present *)
BoundaryLowToken(t) ==
    [address |-> OtherAddress,
     mint_authority_exists |-> Some(FALSE),
     freeze_authority_exists |-> Some(FALSE),
     metadata_mutable |-> Some(FALSE),
     top1_holder_percent |-> Some(t.top1_low_risk),
     top2_holder_percent |-> Some(t.top1_top2_high_risk - t.top1_low_risk),
     top5_holders_percent |-> Some(t.top5_low_risk),
     top10_holders_percent |-> Some(t.top10_low_risk),
     age_days |-> Some(t.age_low_risk),
     liquidity_usd |-> Some(t.liquidity_low_risk),
     holders |-> t.holders_low_risk,
     developer_wallet_moves |-> FALSE,
     twitter_exists |-> TRUE,
     telegram_exists |-> TRUE,
     website_valid |-> TRUE]

(* tests/conftest.py: high_risk_token (the optional fields it does not set
   are None; of its rugpull flags the service reads developer_wallet_moves) *)
HighRiskToken ==
    [DefaultToken EXCEPT !.age_days = Some(2),
                         !.liquidity_usd = Some(5000),
                         !.holders = 50,
                         !.top10_holders_percent = Some(8500)]

FixtureTokens(t) ==
    {DefaultToken, BoundaryLowToken(t), HighRiskToken}

EditableFields ==
    {"mint_authority_exists", "freeze_authority_exists", "metadata_mutable",
     "top1_holder_percent", "top2_holder_percent", "top5_holders_percent",
     "top10_holders_percent", "age_days", "liquidity_usd", "holders",
     "developer_wallet_moves", "twitter_exists", "telegram_exists",
     "website_valid"}

(* the values of a field: unknown, zero, and each cutoff of t with its
   neighbour on the risky side *)
FieldValues(t, f) ==
    CASE f \in {"mint_authority_exists", "freeze_authority_exists", "metadata_mutable"} ->
            {None, Some(TRUE), Some(FALSE)}
      [] f = "top1_holder_percent" ->
            {None, Some(0), Some(t.top1_low_risk), Some(t.top1_low_risk + 1),
             Some(t.top1_high_risk), Some(t.top1_high_risk + 1)}
      [] f = "top2_holder_percent" ->
            {None, Some(0), Some(t.top1_top2_high_risk - t.top1_low_risk),
             Some(t.top1_top2_high_risk - t.top1_low_risk + 1)}
      [] f = "top5_holders_percent" ->
            {None, Some(0), Some(t.top5_low_risk), Some(t.top5_low_risk + 1),
             Some(t.top5_high_risk), Some(t.top5_high_risk + 1)}
      [] f = "top10_holders_percent" ->
            {None, Some(0), Some(t.top10_low_risk), Some(t.top10_low_risk + 1),
             Some(t.top10_high_risk), Some(t.top10_high_risk + 1)}
      [] f = "age_days" ->
            {None, Some(0), Some(t.age_high_risk - 1), Some(t.age_high_risk),
             Some(t.age_low_risk - 1), Some(t.age_low_risk)}
      [] f = "liquidity_usd" ->
            {None, Some(0), Some(t.liquidity_high_risk - 1), Some(t.liquidity_high_risk),
             Some(t.liquidity_low_risk - 1), Some(t.liquidity_low_risk)}
      [] f = "holders" ->
            {0, t.holders_low_risk - 1, t.holders_low_risk}
      [] OTHER -> BOOLEAN

(* the assignments "td.f = v" a test can make *)
Edits(t) == UNION { { <<f, v>> : v \in FieldValues(t, f) } : f \in EditableFields }

(* the tokens of S with at most one more field assigned (assigning a field the
   value it has leaves the token as it is) *)
EditOnce(t, S) == { [td EXCEPT ![e[1]] = e[2]] : td \in S, e \in Edits(t) }

RECURSIVE Edited(_, _, _)
Edited(t, S, k) == IF k = 0 THEN S ELSE EditOnce(t, Edited(t, S, k - 1))

TokenDatas(t) ==
    { [td EXCEPT !.address = a] :
        td \in Edited(t, FixtureTokens(t), MaxEdits),
        a \in Addresses }

-----------------------------------------------------------------------------
(* The service is constructed with thresholds (RiskService.__init__), a token
   is handed to it, and nothing has been returned yet. *)
Init ==
    /\ thresholds \in ThresholdSets
    /\ token_data \in TokenDatas(thresholds)
    /\ result = << >>
    /\ history = << >>
    /\ analysis = << >>
    /\ request = << >>

(* evaluate with the factor list kept on the service object and never
   cleared: the lines of the previous call stay in front of the new ones *)
Evaluate_accumulating_factors ==
    /\ result = << >>
    /\ LET r == calculate_risk(thresholds, token_data)
           previous == IF history = << >> THEN << >>
                       ELSE history[Len(history)][2].factors
       IN  result' = <<[r EXCEPT !.factors = previous \o r.factors]>>
    /\ UNCHANGED <<thresholds, token_data, history, analysis, request>>

(* evaluate: one call of RiskService.calculate_risk(token_data) *)
Evaluate ==
    /\ result = << >>
    /\ result' = <<calculate_risk(thresholds, token_data)>>
    /\ UNCHANGED <<thresholds, token_data, history, analysis, request>>

Next == Evaluate

Spec == Init /\ [][Next]_vars

(* the call has returned *)
Returned == result # << >>

-----------------------------------------------------------------------------
(* The service handed TokenData objects as bot/core/models.py declares the
   class. *)

(* the TokenData built from the keywords td: the class declares no field top2_holder_percent; a
   keyword it does not declare is ignored by the constructor and the object
   has no such attribute *)
TokenData(td) ==
    [f \in DOMAIN td \ {"top2_holder_percent"} |-> td[f]]

InitTokenData ==
    /\ thresholds \in ThresholdSets
    /\ token_data \in { TokenData(td) : td \in TokenDatas(thresholds) }
    /\ result = << >>
    /\ history = << >>
    /\ analysis = << >>
    /\ request = << >>

SpecTokenData == InitTokenData /\ [][Next]_vars

-----------------------------------------------------------------------------
(* One service object called several times: the caller keeps what a call
   returned and calls again, with the same token or another one. *)

MaxCalls == 2

(* the tokens of the repeated calls: the fixture tokens, each under an
   ordinary address and under a SafeList address *)
RepeatTokens(t) ==
    { [td EXCEPT !.address = a] :
        td \in FixtureTokens(t), a \in {OtherAddress, WSOL} }

InitRepeat ==
    /\ thresholds \in ThresholdSets
    /\ token_data \in RepeatTokens(thresholds)
    /\ result = << >>
    /\ history = << >>
    /\ analysis = << >>
    /\ request = << >>

(* the caller notes the token and the result of the call that returned and
   hands the service the token of its next call *)
NextRequest ==
    /\ result # << >>
    /\ Len(history) < MaxCalls
    /\ history' = Append(history, <<token_data, result[1]>>)
    /\ token_data' \in RepeatTokens(thresholds)
    /\ result' = << >>
    /\ UNCHANGED <<thresholds, analysis, request>>

NextRepeat == Evaluate \/ NextRequest

SpecRepeat == InitRepeat /\ [][NextRepeat]_vars

-----------------------------------------------------------------------------
(* The explanation step: bot/services/explain.  A provider is handed the token
   and the engine's verdict and returns an AnalysisResult; the OpenRouter
   provider asks a language model and falls back to a template, the mock
   provider answers from templates. *)

(* bot/core/models.py: Recommendation *)
AVOID == "avoid"

CAUTION == "caution"

OK == "ok"

(* the member of the enumeration RiskLevel with the value level, as an object
   with the attribute value *)
RiskLevelMember(level) == [value |-> level]

(* the dict lookups {RiskLevel.HIGH: AVOID, RiskLevel.MEDIUM: CAUTION,
   RiskLevel.LOW: OK} of _parse_response and _generate_fallback *)
recommendations(level) ==
    CASE level = HIGH -> AVOID
      [] level = MEDIUM -> CAUTION
      [] level = LOW -> OK

(* an exception raised by a call, with its class name *)
Raise(class) == [raised |-> class]

Raises(x) == "raised" \in DOMAIN x

(* str.lower() on the texts a response can carry *)
lower(s) ==
    CASE s = "HIGH" -> "high"
      [] s = "Medium" -> "medium"
      [] s = "OK" -> "ok"
      [] OTHER -> s

(* a value of the decoded JSON object: a key that is absent, null, a string
   (text, with its length where the length matters), or a list of items *)
JsonAbsent == [type |-> "absent", text |-> "", length |-> 0, items |-> << >>]

JsonNull == [type |-> "null", text |-> "None", length |-> 4, items |-> << >>]

JsonString(s, n) == [type |-> "string", text |-> s, length |-> n, items |-> << >>]

JsonList(xs) == [type |-> "list", text |-> "", length |-> 0, items |-> xs]

(* data.get(key, default) *)
get(v, default) == IF v.type = "absent" THEN default ELSE v

(* a slice that keeps the whole sequence *)
Prefix_whole(seq, n) == seq

(* seq[:n] *)
Prefix(seq, n) == SubSeq(seq, 1, IF Len(seq) < n THEN Len(seq) ELSE n)

(* AnalysisResult(risk=..., summary=..., why=..., recommendation=...): the
   constructor validates summary (1 to 500 characters) and why (1 to 5 items)
   and raises ValidationError otherwise.  A summary is <<text, length>>, a why
   entry is a line <<key, args>> as the engine's factor lines are. *)
AnalysisResult(risk, summary, why, recommendation) ==
    IF summary[2] < 1 \/ summary[2] > 500 \/ Len(why) < 1 \/ Len(why) > 5
    THEN Raise("ValidationError")
    ELSE [risk |-> risk, summary |-> summary, why |-> why,
          recommendation |-> recommendation]

(* the reason _parse_response puts in place of an empty list *)
ReasonsNotGiven == <<"reasons_not_given", << >>>>

(* _parse_response(content, expected_risk): content is the text left after
   the code fences are removed; json.loads fails on text that is not JSON, and
   every exception of the field extraction becomes LLMError *)
_parse_response(content, expected_risk) ==
    IF content.json = "invalid"
    THEN Raise("LLMError")
    ELSE IF content.json # "object"
    THEN Raise("LLMError")
    ELSE LET risk_raw == get(content.risk, JsonString(expected_risk.value, 0))
             rec_raw == get(content.recommendation, JsonString(CAUTION, 0))
         IN  IF risk_raw.type # "string" \/ rec_raw.type # "string"
             THEN Raise("LLMError")
             ELSE LET risk_str == lower(risk_raw.text)
                      risk == IF risk_str \in RiskLevel
                              THEN risk_str
                              ELSE expected_risk.value
                      summary_raw == get(content.summary,
                                         JsonString("analysis_unavailable", 18))
                      summary == <<summary_raw.text,
                                   IF summary_raw.length < 500
                                   THEN summary_raw.length ELSE 500>>
                      why_raw == get(content.why, JsonList(<< >>))
                      why_cut == IF why_raw.type = "list"
                                 THEN Prefix(why_raw.items, 5)
                                 ELSE <<<<"text", <<why_raw.text>>>>>>
                      why == IF why_cut = << >> THEN <<ReasonsNotGiven>> ELSE why_cut
                      rec_str == lower(rec_raw.text)
                      recommendation == IF rec_str \in {AVOID, CAUTION, OK}
                                        THEN rec_str
                                        ELSE recommendations(risk)
                      made == AnalysisResult(risk, summary, why, recommendation)
                  IN  IF Raises(made) THEN Raise("LLMError") ELSE made

(* Formatting of a percentage with f"{x:.1f}": the nearest tenth of a
   percent; x in hundredths (no value of the inputs lies halfway) *)
Fmt1(x) ==
    LET q == x \div 10
        r == x % 10
    IN  IF r < 5 THEN q ELSE q + 1

(* the reason _generate_fallback puts in place of an empty list *)
ReasonFromAvailableData == <<"fallback_available_data", << >>>>

(* the reasons _generate_fallback collects for the level, from the token *)
fallback_why(data, level) ==
    IF level = HIGH
    THEN AppendIf(data.mint_authority_exists = Some(TRUE),
                  <<"fallback_mint_present", << >>>>)
         \o AppendIf(data.freeze_authority_exists = Some(TRUE),
                     <<"fallback_freeze_present", << >>>>)
         \o AppendIf(/\ data.top1_holder_percent # None
                     /\ Val(data.top1_holder_percent) # 0
                     /\ Val(data.top1_holder_percent) > 5000,
                     <<"fallback_top1_controls",
                       <<Fmt1(IF data.top1_holder_percent = None
                              THEN 0 ELSE Val(data.top1_holder_percent))>>>>)
         \o AppendIf(data.low_liquidity, <<"fallback_low_liquidity", << >>>>)
         \o AppendIf(data.new_contract, <<"fallback_new_contract", << >>>>)
         \o AppendIf(data.centralized_holders,
                     <<"fallback_centralized_holders", << >>>>)
    ELSE IF level = MEDIUM
    THEN <<<<"fallback_needs_attention", << >>>>>>
         \o AppendIf(data.metadata_mutable = Some(TRUE),
                     <<"metadata_mutable", << >>>>)
         \o AppendIf(/\ data.top5_holders_percent # None
                     /\ Val(data.top5_holders_percent) # 0
                     /\ Val(data.top5_holders_percent) > 4000,
                     <<"fallback_moderate_concentration", << >>>>)
    ELSE <<<<"fallback_indicators_normal", << >>>>>>
         \o AppendIf(data.mint_authority_exists # Some(TRUE),
                     <<"fallback_mint_revoked", << >>>>)
         \o AppendIf(data.freeze_authority_exists # Some(TRUE),
                     <<"fallback_freeze_revoked", << >>>>)

(* _generate_fallback(token_data, risk_level), risk_level a RiskLevel member *)
_generate_fallback(data, risk_level) ==
    LET collected == fallback_why(data, risk_level.value)
        why == IF collected = << >> THEN <<ReasonFromAvailableData>> ELSE collected
    IN  AnalysisResult(risk_level.value,
                       <<"fallback_summary_" \o risk_level.value, 60>>,
                       Prefix(why, 5),
                       recommendations(risk_level.value))

(* _call_api(token_data, risk_level) given how the HTTP exchange went: a
   status other than 200 and a body without choices[0].message.content raise
   LLMError, a failure of the HTTP client raises its own exception, and
   otherwise the content is parsed *)
_call_api(data, risk_level, outcome) ==
    CASE outcome.kind = "status" -> Raise("LLMError")
      [] outcome.kind = "structure" -> Raise("LLMError")
      [] outcome.kind = "exception" -> Raise("ClientError")
      [] OTHER -> _parse_response(outcome.content, risk_level)

(* OpenRouterLLMProvider.generate_analysis(token_data, risk_level): the log
   line in front of the try block reads risk_level.value; inside it a timeout
   of asyncio.wait_for and every exception of _call_api lead to the fallback *)
OpenRouterLLMProvider_generate_analysis(data, risk_level, outcome) ==
    IF "value" \notin DOMAIN risk_level
    THEN Raise("AttributeError")
    ELSE IF outcome.kind = "timeout"
    THEN _generate_fallback(data, risk_level)
    ELSE LET response == _call_api(data, risk_level, outcome)
         IN  IF Raises(response)
             THEN _generate_fallback(data, risk_level)
             ELSE response

(* sum(ord(c) for c in token_data.address) % 3, for the addresses of the
   inputs *)
variation_index(address) ==
    CASE address \in {USDC, USDT} -> 0
      [] address = NearMissAddress -> 1
      [] OTHER -> 2

(* MockLLMProvider.generate_analysis(token_data, risk_level): TEMPLATES is a
   dict keyed by the RiskLevel members; an object that is not hashable, as a
   RiskResult is, cannot be looked up *)
MockLLMProvider_generate_analysis(data, risk_level) ==
    IF "value" \notin DOMAIN risk_level
    THEN Raise("TypeError")
    ELSE LET v == variation_index(data.address)
         IN  AnalysisResult(risk_level.value,
                            <<"mock_summary_" \o risk_level.value, 100 + v>>,
                            [i \in 1..3 |-> <<"mock_" \o risk_level.value, <<v, i>>>>],
                            recommendations(risk_level.value))

OPENROUTER == "openrouter"

MOCK == "mock"

(* provider.generate_analysis(token_data, risk_level) of the provider named *)
generate_analysis(provider, data, risk_level, outcome) ==
    IF provider = OPENROUTER
    THEN OpenRouterLLMProvider_generate_analysis(data, risk_level, outcome)
    ELSE MockLLMProvider_generate_analysis(data, risk_level)

(* explain that lets the provider's exceptions through *)
explain_unwrapped(provider, data, risk_result, outcome) ==
    IF "level" \notin DOMAIN risk_result
    THEN Raise("AttributeError")
    ELSE IF outcome.kind = "late"
    THEN Raise("TimeoutError")
    ELSE generate_analysis(provider, data, risk_result, outcome)

(* ExplainService.explain(token_data, risk_result): the log line in front of
   the try block reads risk_result.level; inside it the provider is handed
   the RiskResult under asyncio.wait_for, a timeout becomes LLMError, LLMError
   is re-raised and every other exception of the provider becomes LLMError *)
explain(provider, data, risk_result, outcome) ==
    IF "level" \notin DOMAIN risk_result
    THEN Raise("AttributeError")
    ELSE IF outcome.kind = "late"
    THEN Raise("LLMError")
    ELSE LET response == generate_analysis(provider, data, risk_result, outcome)
         IN  IF Raises(response) THEN Raise("LLMError") ELSE response

-----------------------------------------------------------------------------
(* The inputs of the explanation step: tokens carrying the rugpull flags the
   templates read, and the ways the exchange with the language model can go. *)

(* RugpullFlags(new_contract=..., low_liquidity=..., centralized_holders=...)
   on the token td *)
WithRugpullFlags(td, nc, ll, ch) ==
    [f \in DOMAIN td \cup {"new_contract", "low_liquidity", "centralized_holders"} |->
        CASE f = "new_contract" -> nc
          [] f = "low_liquidity" -> ll
          [] f = "centralized_holders" -> ch
          [] OTHER -> td[f]]

(* a token with both authorities active and one wallet above one half *)
WhaleToken(t) ==
    [BoundaryLowToken(t) EXCEPT !.mint_authority_exists = Some(TRUE),
                                !.freeze_authority_exists = Some(TRUE),
                                !.top1_holder_percent = Some(6000)]

(* a token in the MEDIUM band: mutable metadata, top-5 just above the LOW
   cutoff *)
MediumToken(t) ==
    [BoundaryLowToken(t) EXCEPT !.metadata_mutable = Some(TRUE),
                                !.top5_holders_percent = Some(t.top5_low_risk + 1)]

ExplainTokens(t) ==
    { WithRugpullFlags([td EXCEPT !.address = a], nc, ll, ch) :
        td \in FixtureTokens(t) \cup {WhaleToken(t), MediumToken(t)},
        a \in {OtherAddress, USDC},
        nc \in BOOLEAN, ll \in BOOLEAN, ch \in BOOLEAN }

(* the i-th reason of a language-model response *)
LLMReason(i) == <<"llm_reason", <<i>>>>

RiskValues ==
    {JsonAbsent, JsonNull, JsonString("high", 4), JsonString("medium", 6),
     JsonString("low", 3), JsonString("HIGH", 4), JsonString("critical", 8)}

SummaryValues ==
    {JsonAbsent, JsonString("llm_summary", 120), JsonString("", 0),
     JsonString("llm_summary", 600)}

WhyValues ==
    {JsonAbsent, JsonList(<< >>), JsonList([i \in 1..3 |-> LLMReason(i)]),
     JsonList([i \in 1..6 |-> LLMReason(i)]), JsonString("llm_reason", 30)}

RecommendationValues ==
    {JsonAbsent, JsonNull, JsonString("avoid", 5), JsonString("caution", 7),
     JsonString("ok", 2), JsonString("OK", 2), JsonString("buy", 3)}

(* a response in the format the system prompt asks for, stating the risk r *)
PlainContent(r) ==
    [json |-> "object",
     risk |-> r,
     summary |-> JsonString("llm_summary", 120),
     why |-> JsonList([i \in 1..3 |-> LLMReason(i)]),
     recommendation |-> JsonString("caution", 7)]

(* the responses: any risk value, and at most one other key off the format;
   text that is not JSON; JSON that is not an object *)
Contents ==
    { PlainContent(r) : r \in RiskValues }
    \cup { [PlainContent(r) EXCEPT !.summary = v] : r \in RiskValues, v \in SummaryValues }
    \cup { [PlainContent(r) EXCEPT !.why = v] : r \in RiskValues, v \in WhyValues }
    \cup { [PlainContent(r) EXCEPT !.recommendation = v] :
             r \in RiskValues, v \in RecommendationValues }
    \cup { [PlainContent(JsonAbsent) EXCEPT !.json = j] : j \in {"invalid", "array"} }

(* how the exchange went: the request timed out, the status was not 200, the
   body lacked choices[0].message.content, the client failed otherwise, or a
   content came back *)
Outcomes ==
    { [kind |-> k, content |-> PlainContent(JsonAbsent)] :
        k \in {"timeout", "status", "structure", "exception"} }
    \cup { [kind |-> "content", content |-> c] : c \in Contents }

(* the mock provider makes no exchange *)
NoExchange == [kind |-> "none", content |-> PlainContent(JsonAbsent)]

(* the provider did not answer within the timeout of ExplainService *)
Late == [kind |-> "late", content |-> PlainContent(JsonAbsent)]

OutcomesOf(provider) == IF provider = OPENROUTER THEN Outcomes ELSE {NoExchange}

InitExplain ==
    /\ thresholds \in ThresholdSets
    /\ token_data \in ExplainTokens(thresholds)
    /\ result = << >>
    /\ history = << >>
    /\ analysis = << >>
    /\ request = << >>

(* ExplainService.explain(token_data, risk_result) with the RiskResult the
   engine returned *)
Explain ==
    /\ result # << >>
    /\ analysis = << >>
    /\ \E provider \in {OPENROUTER, MOCK} :
         \E outcome \in OutcomesOf(provider) \cup {Late} :
            analysis' = <<[call |-> "explain",
                           provider |-> provider,
                           outcome |-> outcome,
                           returned |-> explain(provider, token_data,
                                                result[1], outcome)]>>
    /\ UNCHANGED <<thresholds, token_data, result, history, request>>

(* provider.generate_analysis(token_data, risk_level) with the RiskLevel the
   provider's signature declares: the level of the engine's result *)
GenerateAnalysis ==
    /\ result # << >>
    /\ analysis = << >>
    /\ \E provider \in {OPENROUTER, MOCK} :
         \E outcome \in OutcomesOf(provider) :
            analysis' = <<[call |-> "generate_analysis",
                           provider |-> provider,
                           outcome |-> outcome,
                           returned |-> generate_analysis(provider, token_data,
                                            RiskLevelMember(result[1].level),
                                            outcome)]>>
    /\ UNCHANGED <<thresholds, token_data, result, history, request>>

NextExplain == Evaluate \/ Explain \/ GenerateAnalysis

SpecExplain == InitExplain /\ [][NextExplain]_vars

-----------------------------------------------------------------------------
(* One request through AnalyzerOrchestrator.analyze (bot/services/
   orchestrator.py): the token data is fetched through TokenDataAggregator,
   the risk engine is called, the explanation is asked for. *)

(* how the provider's get_token_data ends: it returns the data, it does not
   answer within the aggregator's timeout, it raises DataFetchError (token
   not found, API unavailable), or it raises something else *)
FetchOutcomes == {"data", "timeout", "not_found", "unavailable", "exception"}

(* await asyncio.wait_for(self._provider.get_token_data(address), timeout) *)
provider_get_token_data(fetch, data) ==
    CASE fetch = "data" -> data
      [] fetch = "timeout" -> Raise("TimeoutError")
      [] fetch \in {"not_found", "unavailable"} -> Raise("DataFetchError")
      [] OTHER -> Raise("RuntimeError")

(* get_token_data that lets the provider's exceptions through *)
get_token_data_unwrapped(fetch, data) ==
    LET got == provider_get_token_data(fetch, data)
    IN  IF Raises(got) THEN got
        ELSE IF got.liquidity_usd = None THEN Raise("TypeError")
        ELSE got

(* TokenDataAggregator.get_token_data(address): inside the try block the
   provider is awaited and the debug line formats liquidity_usd with ",.2f",
   which raises TypeError for None; a timeout becomes DataFetchError,
   DataFetchError is re-raised, every other exception becomes DataFetchError *)
get_token_data(fetch, data) ==
    LET got == provider_get_token_data(fetch, data)
    IN  IF Raises(got) THEN Raise("DataFetchError")
        ELSE IF got.liquidity_usd = None THEN Raise("DataFetchError")
        ELSE got

(* AnalyzerOrchestrator.analyze(token_address): what it returned or raised,
   the collaborators it called in the order of the calls, and what each call
   gave.  The debug lines read token_data.liquidity_usd (formatted ",.0f")
   after the fetch and risk_level.value after the evaluation. *)
analyze(t, fetch, data, provider, outcome) ==
    LET fetched == get_token_data(fetch, data)
        ended(calls, risk, explained, returned) ==
            [calls |-> calls, fetched |-> fetched, risk |-> risk,
             explained |-> explained, returned |-> returned]
    IN  IF Raises(fetched)
        THEN ended(<<"fetch">>, << >>, << >>, fetched)
        ELSE IF fetched.liquidity_usd = None
        THEN ended(<<"fetch">>, << >>, << >>, Raise("TypeError"))
        ELSE LET risk_level == calculate_risk(t, fetched)
             IN  IF Raises(risk_level)
                 THEN ended(<<"fetch", "risk">>, <<risk_level>>, << >>, risk_level)
                 ELSE IF "value" \notin DOMAIN risk_level
                 THEN ended(<<"fetch", "risk">>, <<risk_level>>, << >>,
                            Raise("AttributeError"))
                 ELSE LET explanation == explain(provider, fetched, risk_level, outcome)
                      IN  ended(<<"fetch", "risk", "explain">>, <<risk_level>>,
                                <<[provider |-> provider, outcome |-> outcome]>>,
                                explanation)

(* the tokens a provider can hold: TokenData objects, complete or with
   liquidity_usd and/or age_days unknown *)
AnalyzeTokens(t) ==
    UNION { { TokenData(td),
              TokenData([td EXCEPT !.liquidity_usd = None]),
              TokenData([td EXCEPT !.age_days = None]),
              TokenData([td EXCEPT !.liquidity_usd = None, !.age_days = None]) } :
            td \in ExplainTokens(t) }

InitAnalyze ==
    /\ thresholds \in ThresholdSets
    /\ token_data \in AnalyzeTokens(thresholds)
    /\ result = << >>
    /\ history = << >>
    /\ analysis = << >>
    /\ request = << >>

(* one call of analyze for the address of the token the provider holds *)
Analyze ==
    /\ request = << >>
    /\ \E fetch \in FetchOutcomes :
         \E provider \in {OPENROUTER, MOCK} :
            \E outcome \in OutcomesOf(provider) \cup {Late} :
               LET r == analyze(thresholds, fetch, token_data, provider, outcome)
               IN  request' = <<[fetch |-> fetch,
                                 calls |-> r.calls,
                                 fetched |-> r.fetched,
                                 risk |-> r.risk,
                                 explained |-> r.explained,
                                 returned |-> r.returned]>>
    /\ UNCHANGED <<thresholds, token_data, result, history, analysis>>

NextAnalyze == Analyze

SpecAnalyze == InitAnalyze /\ [][NextAnalyze]_vars

-----------------------------------------------------------------------------
(* The Helius data provider (bot/services/token_data/helius_provider.py):
   two API calls, getAsset and getTokenLargestAccounts, and the TokenData
   built from what they gave. *)

RECURSIVE Pow10(_)
Pow10(n) == IF n = 0 THEN 1 ELSE 10 * Pow10(n - 1)

RECURSIVE Sum(_)
Sum(seq) == IF seq = << >> THEN 0 ELSE Head(seq) + Sum(Tail(seq))

(* sorted(holders, key=uiAmount, reverse=True), on the amounts *)
RECURSIVE sorted_holders(_)
sorted_holders(seq) ==
    IF seq = << >> THEN << >>
    ELSE LET m == CHOOSE i \in 1..Len(seq) :
                     /\ \A j \in 1..Len(seq) : seq[j] <= seq[i]
                     /\ \A j \in 1..(i - 1) : seq[j] < seq[i]
         IN  <<seq[m]>> \o sorted_holders([k \in 1..(Len(seq) - 1) |->
                                              IF k < m THEN seq[k] ELSE seq[k + 1]])

(* (amount / ui_supply) * 100, a percentage, as the fraction <<n, d>> *)
Percent(amount, ui_supply) == <<amount * 100, ui_supply>>

(* round(x, 2) of the percentage x = <<n, d>>, in hundredths of a percent: the
   nearest hundredth, a tie going to the even one *)
Round2(x) ==
    LET n == x[1] * 100
        q == n \div x[2]
        r == n % x[2]
    IN  IF 2 * r < x[2] THEN q
        ELSE IF 2 * r > x[2] THEN q + 1
        ELSE IF q % 2 = 0 THEN q ELSE q + 1

(* _calculate_holder_concentration(holders, total_supply, decimals): the
   entries of the dict it returns, a missing key as None; holders are the
   uiAmount values in whole units, total_supply a multiple of 10**decimals *)
_calculate_holder_concentration(holders, total_supply, decimals) ==
    LET ui_supply == IF decimals > 0 THEN total_supply \div Pow10(decimals)
                     ELSE total_supply
        s == sorted_holders(holders)
        n == Len(s)
        empty == [top1 |-> None, top2 |-> None, top5 |-> None, top10 |-> None]
    IN  IF holders = << >> \/ total_supply <= 0 THEN empty
        ELSE IF ui_supply <= 0 THEN empty
        ELSE [top1 |-> IF n >= 1 THEN Some(Percent(s[1], ui_supply)) ELSE None,
              top2 |-> IF n >= 2 THEN Some(Percent(s[2], ui_supply)) ELSE None,
              top5 |-> IF n >= 5 THEN Some(Percent(Sum(SubSeq(s, 1, 5)), ui_supply))
                       ELSE None,
              top10 |-> IF n >= 10
                        THEN Some(Percent(Sum(SubSeq(s, 1, 10)), ui_supply))
                        ELSE Some(Percent(Sum(s), ui_supply))]

(* "round(x, 2) if x else None": None and 0.0 both give None *)
RoundedIfTruthy(x) ==
    IF x = None THEN None
    ELSE IF Val(x)[1] = 0 THEN None
    ELSE Some(Round2(Val(x)))

(* _build_token_data(address, asset_data, holders_data): asset_data and
   holders_data are None (<< >>) or the decoded response (<<value>>); an empty
   list counts as absent in the conditions.  top10_percent starts as 0.0 and
   stays so unless the concentrations give it.  The keywords given to
   TokenData are collected and the object is built from them; the class
   rejects a top10_holders_percent above 100. *)
_build_token_data(address, asset_data, holders_data) ==
    LET has_asset == asset_data # None
        asset == Val(asset_data)
        supply == IF has_asset THEN asset.supply ELSE 0
        decimals == IF has_asset THEN asset.decimals ELSE 0
        has_holders == holders_data # None /\ Val(holders_data) # << >>
        concentrations ==
            IF has_holders /\ supply > 0
            THEN _calculate_holder_concentration(Val(holders_data), supply, decimals)
            ELSE [top1 |-> None, top2 |-> None, top5 |-> None, top10 |-> None]
        top10_percent == IF concentrations.top10 = None THEN <<0, 1>>
                         ELSE Val(concentrations.top10)
    IN  IF Round2(top10_percent) > 10000
        THEN Raise("ValidationError")
        ELSE TokenData(
          [address |-> address,
           mint_authority_exists |->
               IF has_asset THEN Some(asset.mint_authority) ELSE None,
           freeze_authority_exists |->
               IF has_asset THEN Some(asset.freeze_authority) ELSE None,
           metadata_mutable |-> IF has_asset THEN asset.mutable ELSE None,
           top1_holder_percent |-> RoundedIfTruthy(concentrations.top1),
           top2_holder_percent |-> RoundedIfTruthy(concentrations.top2),
           top5_holders_percent |-> RoundedIfTruthy(concentrations.top5),
           top10_holders_percent |-> Some(Round2(top10_percent)),
           age_days |-> None,
           liquidity_usd |-> None,
           holders |-> IF has_holders THEN Len(Val(holders_data)) ELSE 0,
           developer_wallet_moves |-> FALSE,
           twitter_exists |-> FALSE,
           telegram_exists |-> FALSE,
           website_valid |-> FALSE,
           new_contract |-> FALSE,
           low_liquidity |-> FALSE,
           centralized_holders |-> top10_percent[1] > 60 * top10_percent[2]])

(* HeliusTokenDataProvider.get_token_data(address) given how the two API
   calls ended: each gave data, gave None (token not found), raised
   DataFetchError (API unavailable) or raised something else; every exception
   of the body becomes DataFetchError *)
HeliusTokenDataProvider_get_token_data(address, asset_result, holders_result) ==
    IF asset_result.kind \in {"error", "exception"}
       \/ holders_result.kind \in {"error", "exception"}
    THEN Raise("DataFetchError")
    ELSE IF asset_result.kind = "none" /\ holders_result.kind = "none"
    THEN Raise("DataFetchError")
    ELSE LET built == _build_token_data(address,
                          IF asset_result.kind = "none" THEN None
                          ELSE Some(asset_result.data),
                          IF holders_result.kind = "none" THEN None
                          ELSE Some(holders_result.data))
         IN  IF Raises(built) THEN Raise("DataFetchError") ELSE built

(* the getAsset results: token_info with or without the two authorities,
   the mutable flag absent, true or false, and a supply of 0, of 10000 or
   30000 units, or of 10000 units with two decimals *)
Assets ==
    { [mint_authority |-> m, freeze_authority |-> f, mutable |-> u,
       supply |-> sd[1], decimals |-> sd[2]] :
        m \in BOOLEAN, f \in BOOLEAN, u \in {None, Some(TRUE), Some(FALSE)},
        sd \in {<<0, 0>>, <<10000, 0>>, <<30000, 0>>, <<1000000, 2>>} }

NoAsset ==
    [mint_authority |-> FALSE, freeze_authority |-> FALSE, mutable |-> None,
     supply |-> 0, decimals |-> 0]

AssetResults ==
    { [kind |-> k, data |-> NoAsset] : k \in {"none", "error", "exception"} }
    \cup { [kind |-> "data", data |-> a] : a \in Assets }

(* the getTokenLargestAccounts results: the uiAmount of each account, in the
   order of the response *)
HolderLists ==
    { << >>,
      <<0>>,
      <<6000>>,
      <<1500, 3000>>,
      <<500, 2500, 1500, 0, 100>>,
      <<1000, 1000, 1000, 1000, 1000, 500, 500, 500, 500, 500>>,
      <<2000, 1000, 1000, 1000, 1000, 500, 500, 500, 500, 500, 100, 100>>,
      <<12000>> }

HolderResults ==
    { [kind |-> k, data |-> << >>] : k \in {"none", "error", "exception"} }
    \cup { [kind |-> "data", data |-> h] : h \in HolderLists }

InitHelius ==
    /\ thresholds = RiskThresholds
    /\ token_data \in { [DefaultToken EXCEPT !.address = a] : a \in {OtherAddress, USDC} }
    /\ result = << >>
    /\ history = << >>
    /\ analysis = << >>
    /\ request = << >>

(* one call of HeliusTokenDataProvider.get_token_data for the address of the
   token asked about *)
HeliusFetch ==
    /\ request = << >>
    /\ \E asset_result \in AssetResults :
         \E holders_result \in HolderResults :
            request' = <<[asset_result |-> asset_result,
                          holders_result |-> holders_result,
                          returned |-> HeliusTokenDataProvider_get_token_data(
                                           token_data.address, asset_result,
                                           holders_result)]>>
    /\ UNCHANGED <<thresholds, token_data, result, history, analysis>>

NextHelius == HeliusFetch

SpecHelius == InitHelius /\ [][NextHelius]_vars

-----------------------------------------------------------------------------
(* The error handling middleware (bot/middleware/error_handler.py) around a
   handler of Telegram updates. *)

(* bot/templates/messages.py *)
ERROR_GENERIC == "ERROR_GENERIC"

ERROR_TRY_LATER == "ERROR_TRY_LATER"

ERROR_SERVICE_UNAVAILABLE == "ERROR_SERVICE_UNAVAILABLE"

(* bot/core/exceptions.py: TokenBrainError and its subclasses *)
TokenBrainErrors == {"TokenBrainError", "ValidationError", "DataFetchError", "LLMError"}

(* an exception of the class with the attribute message, the user-facing text
   (the empty text for a class that has no such attribute) *)
Error(class, message) == [raised |-> class, message |-> message]

(* the chat message the update lets one answer to: event.message, else
   event.callback_query.message, else none *)
HasReplyTarget(event) == event \in {"message", "callback_query_message"}

(* _send_error_message that lets a failing msg.answer through *)
_send_error_message_unguarded(event, message, answer_fails) ==
    [answers |-> IF HasReplyTarget(event) THEN <<message>> ELSE << >>,
     escaped |-> IF HasReplyTarget(event) /\ answer_fails
                 THEN "TelegramAPIError" ELSE ""]

(* _send_error_message(event, message): the calls of msg.answer it makes and
   the exception that leaves it (none: a failing answer is logged) *)
_send_error_message(event, message, answer_fails) ==
    [answers |-> IF HasReplyTarget(event) THEN <<message>> ELSE << >>,
     escaped |-> ""]

(* _handle_error(event, error, fallback_message): the message is
   error.message or fallback_message or ERROR_GENERIC *)
_handle_error(event, error, fallback_message, answer_fails) ==
    LET message == IF error.message # "" THEN error.message
                   ELSE IF fallback_message # "" THEN fallback_message
                   ELSE ERROR_GENERIC
    IN  _send_error_message(event, message, answer_fails)

(* ErrorHandlerMiddleware.__call__(handler, event, data): what it returned
   (None is << >>), the exception that left it ("" for none) and the answers
   it sent, given how the handler ended *)
ErrorHandlerMiddleware_call(handled, event, answer_fails) ==
    IF handled.kind = "returns"
    THEN [returned |-> handled.value, escaped |-> "", answers |-> << >>]
    ELSE LET e == handled.error
             sent == CASE e.raised = "ValidationError" ->
                            _handle_error(event, e, "", answer_fails)
                       [] e.raised = "DataFetchError" ->
                            _handle_error(event, e, ERROR_TRY_LATER, answer_fails)
                       [] e.raised = "LLMError" ->
                            _handle_error(event, e, ERROR_SERVICE_UNAVAILABLE,
                                          answer_fails)
                       [] e.raised \in TokenBrainErrors ->
                            _handle_error(event, e, "", answer_fails)
                       [] OTHER ->
                            _send_error_message(event, ERROR_GENERIC, answer_fails)
         IN  [returned |-> None, escaped |-> sent.escaped, answers |-> sent.answers]

(* the ways a handler ends: it returns None or a value, or it raises one of
   the application's errors (with its default message, another one or an
   empty one) or another exception *)
Handled ==
    { [kind |-> "returns", value |-> v, error |-> Error("", "")] :
        v \in {None, Some("success")} }
    \cup { [kind |-> "raises", value |-> None, error |-> Error(c, m)] :
             c \in TokenBrainErrors, m \in {"default message", "other message", ""} }
    \cup { [kind |-> "raises", value |-> None, error |-> Error(c, "")] :
             c \in {"AttributeError", "TypeError", "RuntimeError"} }

(* the updates: with a message, with a callback query that has a message,
   with a callback query that has none, with neither *)
Events == {"message", "callback_query_message", "callback_query", "other"}

InitMiddleware ==
    /\ thresholds = RiskThresholds
    /\ token_data \in { [DefaultToken EXCEPT !.address = a] : a \in {OtherAddress, USDC} }
    /\ result = << >>
    /\ history = << >>
    /\ analysis = << >>
    /\ request = << >>

(* one update goes through the middleware *)
HandleUpdate ==
    /\ request = << >>
    /\ \E handled \in Handled :
         \E event \in Events :
            \E answer_fails \in BOOLEAN :
               LET r == ErrorHandlerMiddleware_call(handled, event, answer_fails)
               IN  request' = <<[handled |-> handled,
                                 event |-> event,
                                 answer_fails |-> answer_fails,
                                 returned |-> r.returned,
                                 escaped |-> r.escaped,
                                 answers |-> r.answers]>>
    /\ UNCHANGED <<thresholds, token_data, result, history, analysis>>

NextMiddleware == HandleUpdate

SpecMiddleware == InitMiddleware /\ [][NextMiddleware]_vars

-----------------------------------------------------------------------------
(* Several calls of calculate_risk in flight on one RiskService object
   (bot/services/risk/service.py): each call goes through the statements of
   the method one at a time, and the statements of different calls are taken
   in any order.  The object holds its thresholds and nothing else; signals,
   safety_score, context_score, factors and level are local names of a call. *)

Callers == 1..MaxCalls

(* where a call keeps its local names: in its own frame; were they attributes
   of the service object, every call would use the one place *)
frame_index_on_service(i) == 1

frame_index(i) == i

NoFrame ==
    [signals |-> None, safety_score |-> None, context_score |-> None,
     factors |-> None, level |-> None]

(* the next statement of a call of calculate_risk(token_data) at position pc
   with the local names of frame: the position it leaves the call at, what it
   returned (None while it runs) and the local names afterwards *)
calculate_risk_step(t, pc, data, frame) ==
    CASE pc = "called" /\ data.address \in SAFE_PROTOCOL_TOKENS ->
           [pc |-> "returned", returned |-> Some(SafeListResult), frame |-> frame]
      [] pc = "called" /\ data.address \notin SAFE_PROTOCOL_TOKENS ->
           LET signals == _extract_signals(data)
           IN  [pc |-> "extracted", returned |-> None,
                frame |-> [frame EXCEPT
                    !.signals = Some(signals),
                    !.safety_score = Some(_calculate_safety_completeness(signals)),
                    !.context_score = Some(_calculate_context_completeness(signals))]]
      [] pc = "extracted" ->
           [pc |-> "explained", returned |-> None,
            frame |-> [frame EXCEPT !.factors = Some(get_risk_factors(t, data))]]
      [] pc = "explained" ->
           [pc |-> "decided", returned |-> None,
            frame |-> [frame EXCEPT
                !.level = Some(IF _is_high_risk(t, data) THEN HIGH
                               ELSE IF _is_low_risk(t, data) THEN LOW
                               ELSE MEDIUM)]]
      [] pc = "decided" ->
           [pc |-> "returned",
            returned |-> Some(RiskResult(Val(frame.level), Val(frame.safety_score),
                                         Val(frame.context_score), Val(frame.signals),
                                         Val(frame.factors))),
            frame |-> frame]

(* a call is between its first and its last statement *)
InFlight(call) == call.pc \notin {"called", "returned"}

(* the service is constructed and MaxCalls calls have been made, each with its
   token; none has run a statement *)
InitConcurrent ==
    /\ thresholds \in ThresholdSets
    /\ result = << >>
    /\ history = << >>
    /\ analysis = << >>
    /\ \E tokens \in [Callers -> RepeatTokens(thresholds)] :
          /\ token_data = tokens[1]
          /\ request = <<[calls |-> [i \in Callers |->
                                       [pc |-> "called", token_data |-> tokens[i],
                                        returned |-> None, overlapped |-> FALSE]],
                          frames |-> [i \in Callers |-> NoFrame]]>>

(* one call runs its next statement *)
Step ==
    \E i \in Callers :
       LET calls == request[1].calls
           frames == request[1].frames
           call == calls[i]
           s == calculate_risk_step(thresholds, call.pc, call.token_data,
                                    frames[frame_index(i)])
           others == \E j \in Callers \ {i} : InFlight(calls[j])
       IN  /\ call.pc # "returned"
           /\ request' = <<[calls |-> [calls EXCEPT ![i] =
                                         [pc |-> s.pc,
                                          token_data |-> call.token_data,
                                          returned |-> s.returned,
                                          overlapped |-> call.overlapped \/ others]],
                            frames |-> [frames EXCEPT ![frame_index(i)] = s.frame]]>>
           /\ UNCHANGED <<thresholds, token_data, result, history, analysis>>

NextConcurrent == Step

SpecConcurrent == InitConcurrent /\ [][NextConcurrent]_vars

-----------------------------------------------------------------------------
(* The two collaborators of the orchestrator called on their own:
   TokenDataAggregator.get_token_data for the address of the token the
   provider holds, and ExplainService.explain with the engine's result. *)

InitCollaborators ==
    /\ thresholds \in ThresholdSets
    /\ token_data \in ExplainTokens(thresholds)
                      \cup { [td EXCEPT !.liquidity_usd = None] :
                               td \in ExplainTokens(thresholds) }
    /\ result = << >>
    /\ history = << >>
    /\ analysis = << >>
    /\ request = << >>

(* one call of TokenDataAggregator.get_token_data(address); the provider
   holds the TokenData object of the token *)
GetTokenData ==
    /\ request = << >>
    /\ \E fetch \in FetchOutcomes :
          request' = <<[fetch |-> fetch,
                        returned |-> get_token_data(fetch, TokenData(token_data))]>>
    /\ UNCHANGED <<thresholds, token_data, result, history, analysis>>

NextCollaborators == Evaluate \/ Explain \/ GetTokenData

SpecCollaborators == InitCollaborators /\ [][NextCollaborators]_vars

-----------------------------------------------------------------------------
(* Vocabulary of the properties *)

(* the RiskResult returned by the call *)
res == result[1]

NonSafeList == token_data.address \notin {WSOL, USDC, USDT}

(* the level calculate_risk returns for the token d under the service's
   thresholds *)
LevelOf(d) == calculate_risk(thresholds, d).level

(* the nine Phase-1 HIGH triggers, each as the specification states it *)
MintTrigger(d) == d.mint_authority_exists = Some(TRUE)

FreezeTrigger(d) == d.freeze_authority_exists = Some(TRUE)

Top1Trigger(t, d) ==
    d.top1_holder_percent # None /\ Val(d.top1_holder_percent) > t.top1_high_risk

Top5Trigger(t, d) ==
    d.top5_holders_percent # None /\ Val(d.top5_holders_percent) > t.top5_high_risk

Top10Trigger(t, d) ==
    d.top10_holders_percent # None /\ Val(d.top10_holders_percent) > t.top10_high_risk

TwoWhalesTrigger(t, d) ==
    /\ d.top1_holder_percent # None
    /\ d.top2_holder_percent # None
    /\ Val(d.top1_holder_percent) + Val(d.top2_holder_percent) > t.top1_top2_high_risk

OpacityTrigger(d) == d.age_days = None /\ d.liquidity_usd = None

LiquidityTrigger(t, d) ==
    d.liquidity_usd # None /\ Val(d.liquidity_usd) < t.liquidity_high_risk

AgeTrigger(t, d) == d.age_days # None /\ Val(d.age_days) < t.age_high_risk

AnyHighTrigger(t, d) ==
    \/ MintTrigger(d)
    \/ FreezeTrigger(d)
    \/ Top1Trigger(t, d)
    \/ Top5Trigger(t, d)
    \/ Top10Trigger(t, d)
    \/ TwoWhalesTrigger(t, d)
    \/ OpacityTrigger(d)
    \/ LiquidityTrigger(t, d)
    \/ AgeTrigger(t, d)

(* the six critical signals of the token are all known *)
AllCriticalKnown(d) ==
    /\ d.mint_authority_exists # None
    /\ d.freeze_authority_exists # None
    /\ d.top1_holder_percent # None
    /\ d.top2_holder_percent # None
    /\ d.top5_holders_percent # None
    /\ d.top10_holders_percent # None

(* the Phase-2 LOW requirements, all of them *)
AllLowRequirements(t, d) ==
    /\ AllCriticalKnown(d)
    /\ d.mint_authority_exists = Some(FALSE)
    /\ d.freeze_authority_exists = Some(FALSE)
    /\ Val(d.top1_holder_percent) <= t.top1_low_risk
    /\ Val(d.top5_holders_percent) <= t.top5_low_risk
    /\ Val(d.top10_holders_percent) <= t.top10_low_risk
    /\ d.liquidity_usd # None /\ Val(d.liquidity_usd) >= t.liquidity_low_risk
    /\ d.age_days # None /\ Val(d.age_days) >= t.age_low_risk
    /\ d.holders >= t.holders_low_risk

(* 1 for a known value, 0 for None *)
Known(x) == IF x = None THEN 0 ELSE 1

-----------------------------------------------------------------------------
(* C1, as stated: for every input on which one of the nine Phase-1 HIGH
   triggers holds, evaluate returns HIGH, whatever the other fields (the
   address included) are. *)
C1_TriggerGivesHighForEveryInput ==
    (Returned /\ AnyHighTrigger(thresholds, token_data)) => res.level = HIGH

(* C1, amended: for every input whose address is not on the SafeList and on
   which one of the nine Phase-1 HIGH triggers holds, evaluate returns HIGH,
   never LOW or MEDIUM. *)
C1_TriggerGivesHigh ==
    (Returned /\ NonSafeList /\ AnyHighTrigger(thresholds, token_data))
        => res.level = HIGH

(* an input on which only the last trigger in priority order (age < 7) holds
   and which meets every LOW requirement but the age has been rated HIGH *)
C1_Witness ==
    /\ Returned /\ NonSafeList
    /\ AgeTrigger(thresholds, token_data)
    /\ AllLowRequirements(thresholds,
           [token_data EXCEPT !.age_days = Some(thresholds.age_low_risk)])
    /\ res.level = HIGH

(* C2, as stated: whenever evaluate returns LOW, the six critical signals of
   the input are all known. *)
C2_LowHasAllCriticalKnownForEveryInput ==
    (Returned /\ res.level = LOW) => AllCriticalKnown(token_data)

(* C2, amended: whenever evaluate returns LOW for an input whose address is
   not on the SafeList, the six critical signals of the input are all known. *)
C2_LowHasAllCriticalKnown ==
    (Returned /\ NonSafeList /\ res.level = LOW) => AllCriticalKnown(token_data)

(* a token that is not on the SafeList has been rated LOW *)
C2_Witness == Returned /\ NonSafeList /\ res.level = LOW

(* C3: an input gets level LOW, both completeness scores 1.0, the single
   factor "base protocol asset of the chain" and risk_signals = {safelist:
   true} if its address is one of the three SafeList addresses, whatever its
   other fields are, and no input with another address gets that result. *)
C3_SafeListOverride ==
    Returned =>
        IF token_data.address \in {WSOL, USDC, USDT}
        THEN /\ res.level = LOW
             /\ res.safety_completeness = 12
             /\ res.context_completeness = 12
             /\ res.factors = << <<"base_protocol_token", << >> >> >>
             /\ DOMAIN res.risk_signals = {"safelist"}
             /\ res.risk_signals.safelist = TRUE
        ELSE /\ DOMAIN res.risk_signals = critical_signals \cup context_signals
             /\ res.factors # << <<"base_protocol_token", << >> >> >>

(* a SafeList token with an active mint authority and no other signal known
   has been evaluated *)
C3_Witness ==
    /\ Returned
    /\ token_data.address = USDT
    /\ MintTrigger(token_data)
    /\ token_data.top1_holder_percent = None
    /\ OpacityTrigger(token_data)

(* the level of the reference procedure: HIGH if a trigger holds, otherwise
   LOW if every LOW requirement holds, otherwise MEDIUM *)
ReferenceLevel(t, d) ==
    IF AnyHighTrigger(t, d) THEN HIGH
    ELSE IF AllLowRequirements(t, d) THEN LOW
    ELSE MEDIUM

(* C4: for every input that is not on the SafeList and every thresholds
   object, the level returned is the level of the reference procedure
   evaluated with those thresholds. *)
C4_LevelIsReferenceLevel ==
    (Returned /\ NonSafeList) => res.level = ReferenceLevel(thresholds, token_data)

(* under the overriding thresholds a token has been rated LOW that the
   default thresholds do not rate LOW *)
C4_Witness ==
    /\ Returned /\ NonSafeList
    /\ thresholds = CustomThresholds
    /\ res.level = LOW
    /\ ReferenceLevel(RiskThresholds, token_data) # LOW

(* the number of the six critical signals that are known *)
KnownCritical(d) ==
    Known(d.mint_authority_exists) + Known(d.freeze_authority_exists)
    + Known(d.top1_holder_percent) + Known(d.top2_holder_percent)
    + Known(d.top5_holders_percent) + Known(d.top10_holders_percent)

(* C5: for every input that is not on the SafeList, safety_completeness is
   (number of known critical signals) / 6, a known false or 0 counting as
   known; it lies in [0,1] and is 1.0 exactly when all six are known. *)
C5_SafetyCompleteness ==
    (Returned /\ NonSafeList) =>
        /\ 6 * res.safety_completeness = 12 * KnownCritical(token_data)
        /\ res.safety_completeness \in 0..12
        /\ (res.safety_completeness = 12 <=> AllCriticalKnown(token_data))

(* a token whose only known critical signals are a false mint authority and
   a top-1 share of 0 has been scored 2/6 *)
C5_Witness ==
    /\ Returned /\ NonSafeList
    /\ token_data.mint_authority_exists = Some(FALSE)
    /\ token_data.top1_holder_percent = Some(0)
    /\ KnownCritical(token_data) = 2
    /\ res.safety_completeness = 4

(* the number of the four contextual signals that are known, holders being
   known only when greater than 0 *)
KnownContext(d) ==
    Known(d.age_days) + Known(d.liquidity_usd) + Known(d.metadata_mutable)
    + (IF d.holders > 0 THEN 1 ELSE 0)

(* C6: for every input that is not on the SafeList, context_completeness is
   (number of known contextual signals) / 4, where holders = 0 counts as
   unknown and age 0, liquidity 0 and metadata_mutable false count as known;
   it lies in [0,1] and is 1.0 exactly when age, liquidity and
   metadata_mutable are known and holders > 0. *)
C6_ContextCompleteness ==
    (Returned /\ NonSafeList) =>
        /\ 4 * res.context_completeness = 12 * KnownContext(token_data)
        /\ res.context_completeness \in 0..12
        /\ (res.context_completeness = 12 <=>
               /\ token_data.age_days # None
               /\ token_data.liquidity_usd # None
               /\ token_data.metadata_mutable # None
               /\ token_data.holders > 0)

(* a token with age 0, metadata_mutable false, a known liquidity and 0
   holders has been scored 3/4 *)
C6_Witness ==
    /\ Returned /\ NonSafeList
    /\ token_data.age_days = Some(0)
    /\ token_data.metadata_mutable = Some(FALSE)
    /\ token_data.liquidity_usd # None
    /\ token_data.holders = 0
    /\ res.context_completeness = 9

(* a signal of the token has a known value that fires a HIGH trigger or fails
   a LOW requirement (a holder count of 0 is "not observed", not a known
   value) *)
KnownNegativeSignal(t, d) ==
    \/ MintTrigger(d)
    \/ FreezeTrigger(d)
    \/ Top1Trigger(t, d)
    \/ Top5Trigger(t, d)
    \/ Top10Trigger(t, d)
    \/ TwoWhalesTrigger(t, d)
    \/ LiquidityTrigger(t, d)
    \/ AgeTrigger(t, d)
    \/ d.top1_holder_percent # None /\ Val(d.top1_holder_percent) > t.top1_low_risk
    \/ d.top5_holders_percent # None /\ Val(d.top5_holders_percent) > t.top5_low_risk
    \/ d.top10_holders_percent # None /\ Val(d.top10_holders_percent) > t.top10_low_risk
    \/ d.liquidity_usd # None /\ Val(d.liquidity_usd) < t.liquidity_low_risk
    \/ d.age_days # None /\ Val(d.age_days) < t.age_low_risk
    \/ d.holders > 0 /\ d.holders < t.holders_low_risk

(* C7: whenever the tier is HIGH or MEDIUM and the input has at least one
   known negative signal, factors is not empty. *)
C7_NegativeSignalHasFactor ==
    (/\ Returned
     /\ res.level \in {HIGH, MEDIUM}
     /\ KnownNegativeSignal(thresholds, token_data))
        => res.factors # << >>

(* C8: every RiskResult carries at least one factor: when no factor rule
   fires, a single default line keyed by the tier stands in the list. *)
C8_FactorsNeverEmpty == Returned => Len(res.factors) >= 1

-----------------------------------------------------------------------------
(* the token d with one field assigned *)
With(d, f, v) == [d EXCEPT ![f] = v]

(* the HIGH-side cutoffs, under the default thresholds: for a token rated LOW
   (so that no other trigger holds), each signal set exactly to its cutoff
   does not make it HIGH and the next value on the risky side does; the top-1
   cutoff is probed with top-2 unknown, which keeps the two-whales rule out *)
HighBoundaries(d) ==
    /\ LevelOf(With(d, "liquidity_usd", Some(20000))) # HIGH
    /\ LevelOf(With(d, "liquidity_usd", Some(19999))) = HIGH
    /\ LevelOf(With(d, "age_days", Some(7))) # HIGH
    /\ LevelOf(With(d, "age_days", Some(6))) = HIGH
    /\ LevelOf(With(With(d, "top1_holder_percent", Some(5000)),
                    "top2_holder_percent", None)) # HIGH
    /\ LevelOf(With(With(d, "top1_holder_percent", Some(5001)),
                    "top2_holder_percent", None)) = HIGH
    /\ LevelOf(With(d, "top5_holders_percent", Some(5000))) # HIGH
    /\ LevelOf(With(d, "top5_holders_percent", Some(5001))) = HIGH
    /\ LevelOf(With(d, "top10_holders_percent", Some(6500))) # HIGH
    /\ LevelOf(With(d, "top10_holders_percent", Some(6501))) = HIGH
    /\ LevelOf(With(d, "top2_holder_percent",
                    Some(4000 - Val(d.top1_holder_percent)))) # HIGH
    /\ LevelOf(With(d, "top2_holder_percent",
                    Some(4001 - Val(d.top1_holder_percent)))) = HIGH

(* the LOW-side cutoffs other than top-1, under the default thresholds: a
   token rated LOW stays LOW with the signal exactly at its cutoff and becomes
   MEDIUM with the next value on the risky side *)
LowBoundaries(d) ==
    /\ LevelOf(With(d, "liquidity_usd", Some(80000))) = LOW
    /\ LevelOf(With(d, "liquidity_usd", Some(79999))) = MEDIUM
    /\ LevelOf(With(d, "age_days", Some(30))) = LOW
    /\ LevelOf(With(d, "age_days", Some(29))) = MEDIUM
    /\ LevelOf(With(d, "holders", 100)) = LOW
    /\ LevelOf(With(d, "holders", 99)) = MEDIUM
    /\ LevelOf(With(d, "top5_holders_percent", Some(4000))) = LOW
    /\ LevelOf(With(d, "top5_holders_percent", Some(4001))) = MEDIUM
    /\ LevelOf(With(d, "top10_holders_percent", Some(5500))) = LOW
    /\ LevelOf(With(d, "top10_holders_percent", Some(5501))) = MEDIUM

(* the input has been rated LOW by the heuristics under the default
   thresholds *)
RatedLowByDefault ==
    Returned /\ NonSafeList /\ thresholds = RiskThresholds /\ res.level = LOW

(* C9, as stated: a signal exactly at a cutoff lands on the safe side of
   every rule and the next value on the risky side does not; in particular a
   token rated LOW with top1 = 25 becomes MEDIUM with top1 = 25.01. *)
C9_BoundariesAsStated ==
    RatedLowByDefault =>
        /\ HighBoundaries(token_data)
        /\ LowBoundaries(token_data)
        /\ token_data.top1_holder_percent = Some(2500) =>
               LevelOf(With(token_data, "top1_holder_percent", Some(2501))) = MEDIUM

(* C9, amended: as stated, except that raising top1 from 25 to 25.01 makes
   a token rated LOW either MEDIUM or, when top1 + top2 thereby exceeds 40,
   HIGH. *)
C9_Boundaries ==
    RatedLowByDefault =>
        /\ HighBoundaries(token_data)
        /\ LowBoundaries(token_data)
        /\ token_data.top1_holder_percent = Some(2500) =>
               LevelOf(With(token_data, "top1_holder_percent", Some(2501)))
                   = IF 2501 + Val(token_data.top2_holder_percent) > 4000
                     THEN HIGH ELSE MEDIUM

(* a token with every signal exactly at its LOW cutoff (top1 = 25, top1 +
   top2 = 40, top5 = 40, top10 = 55, liquidity 80000, age 30, holders 100)
   has been rated LOW *)
C9_Witness ==
    /\ RatedLowByDefault
    /\ token_data.top1_holder_percent = Some(2500)
    /\ token_data.top2_holder_percent = Some(1500)
    /\ token_data.top5_holders_percent = Some(4000)
    /\ token_data.top10_holders_percent = Some(5500)
    /\ token_data.liquidity_usd = Some(80000)
    /\ token_data.age_days = Some(30)
    /\ token_data.holders = 100

-----------------------------------------------------------------------------
(* the token d with the critical signals of U replaced by None *)
WithUnknown(d, U) ==
    [f \in DOMAIN d |-> IF f \in U THEN None ELSE d[f]]

(* C10: for every input that is not on the SafeList and is rated LOW,
   replacing any non-empty subset of the six critical signals by unknown
   gives MEDIUM, and with exactly one of them unknown safety_completeness is
   5/6. *)
C10_UnknownBlocksLowOnly ==
    (Returned /\ NonSafeList /\ res.level = LOW) =>
        \A U \in (SUBSET critical_signals) \ {{}} :
            LET r == calculate_risk(thresholds, WithUnknown(token_data, U))
            IN  /\ r.level = MEDIUM
                /\ Cardinality(U) = 1 => r.safety_completeness = 10

(* a token that is rated LOW with its top-2 share known has been evaluated
   with the top-2 share unknown: MEDIUM, safety_completeness 5/6 *)
C10_Witness ==
    /\ Returned /\ NonSafeList
    /\ token_data.top2_holder_percent = None
    /\ LevelOf(With(token_data, "top2_holder_percent", Some(0))) = LOW
    /\ res.level = MEDIUM
    /\ res.safety_completeness = 10

-----------------------------------------------------------------------------
(* the call returned a RiskResult with one of the three levels and both
   completeness scores in [0,1], and did not raise *)
IsRiskResult(r) ==
    /\ "raised" \notin DOMAIN r
    /\ DOMAIN r = {"level", "safety_completeness", "context_completeness",
                   "risk_signals", "factors"}
    /\ r.level \in RiskLevel
    /\ r.safety_completeness \in 0..12
    /\ r.context_completeness \in 0..12

(* C11: evaluate is total: for every well-formed TokenData, whatever the
   combination of known and unknown values of its nullable fields and
   whatever its address, the call returns a RiskResult whose level is HIGH,
   MEDIUM or LOW and whose two completeness scores lie in [0,1]; it never
   raises. *)
C11_EvaluateIsTotal == Returned => IsRiskResult(res)

-----------------------------------------------------------------------------
(* C12: evaluate is deterministic and idempotent: a call returns the same
   RiskResult (level, completeness scores, risk_signals, factors in the same
   order) as every earlier call of the same service with the identical token,
   whatever other tokens were evaluated before or in between. *)
C12_SameInputSameResult ==
    Returned =>
        \A i \in 1..Len(history) :
            history[i][1] = token_data => history[i][2] = res

(* a token has been evaluated a second time after a call with another token
   of the same address and other attribute values, which got another level
   and a non-empty factor list *)
C12_Witness ==
    /\ Returned
    /\ Len(history) = 2
    /\ history[1][1] = token_data
    /\ history[2][1] # token_data
    /\ history[2][1].address = token_data.address
    /\ history[2][2].factors # << >>
    /\ history[2][2].level # res.level
    /\ NonSafeList

-----------------------------------------------------------------------------
(* the factor list of the result contains the line *)
HasLine(line) == \E i \in 1..Len(res.factors) : res.factors[i] = line

(* the lines that name a cause of HIGH *)
HighCauseLines ==
    {"mint_active", "freeze_active", "top1_controls", "top1_top2_control",
     "top5_control", "top10_high_concentration", "full_opacity",
     "liquidity_very_low", "age_very_new"}

(* C13: whenever an input that is not on the SafeList fires a Phase-1 HIGH
   trigger, factors contains the line of that trigger, for every trigger that
   fires and not only the first in priority order, the two-whales line citing
   the combined percentage, all gated by the thresholds of the service; hence
   every HIGH result has a factor that names a cause of HIGH. *)
C13_TriggerHasItsLine ==
    (Returned /\ NonSafeList) =>
        LET d == token_data
            t == thresholds
        IN  /\ MintTrigger(d) => HasLine(<<"mint_active", << >> >>)
            /\ FreezeTrigger(d) => HasLine(<<"freeze_active", << >> >>)
            /\ Top1Trigger(t, d) =>
                   HasLine(<<"top1_controls", <<Fmt0(Val(d.top1_holder_percent))>> >>)
            /\ TwoWhalesTrigger(t, d) =>
                   HasLine(<<"top1_top2_control",
                             <<Fmt0(Val(d.top1_holder_percent)
                                    + Val(d.top2_holder_percent))>> >>)
            /\ Top5Trigger(t, d) =>
                   HasLine(<<"top5_control", <<Fmt0(Val(d.top5_holders_percent))>> >>)
            /\ Top10Trigger(t, d) =>
                   HasLine(<<"top10_high_concentration",
                             <<Fmt0(Val(d.top10_holders_percent))>> >>)
            /\ OpacityTrigger(d) => HasLine(<<"full_opacity", << >> >>)
            /\ LiquidityTrigger(t, d) =>
                   HasLine(<<"liquidity_very_low", <<Val(d.liquidity_usd)>> >>)
            /\ AgeTrigger(t, d) =>
                   HasLine(<<"age_very_new", <<Val(d.age_days)>> >>)
            /\ res.level = HIGH =>
                   \E i \in 1..Len(res.factors) : res.factors[i][1] \in HighCauseLines

(* a token on which the two-whales trigger (top1 + top2 = 40.01) and the
   very-low-liquidity trigger both fire, and no trigger before them in
   priority order, has been rated HIGH with both lines *)
C13_Witness ==
    /\ Returned /\ NonSafeList
    /\ ~MintTrigger(token_data) /\ ~FreezeTrigger(token_data)
    /\ ~Top1Trigger(thresholds, token_data)
    /\ ~Top5Trigger(thresholds, token_data)
    /\ ~Top10Trigger(thresholds, token_data)
    /\ TwoWhalesTrigger(thresholds, token_data)
    /\ LiquidityTrigger(thresholds, token_data)
    /\ res.level = HIGH
    /\ HasLine(<<"top1_top2_control", <<40>> >>)
    /\ HasLine(<<"liquidity_very_low", <<Val(token_data.liquidity_usd)>> >>)

-----------------------------------------------------------------------------
(* the number of the item of the Factor Explainer contract a line belongs to,
   both top-5 lines belonging to item 7 *)
ItemOf(line) ==
    CASE line = "confidence_gate" -> 1
      [] line = "full_opacity" -> 2
      [] line \in {"mint_unavailable", "freeze_unavailable", "top1_unavailable",
                   "top2_unavailable", "top10_unavailable"} -> 3
      [] line \in {"mint_active", "freeze_active"} -> 4
      [] line = "top1_controls" -> 5
      [] line = "top1_top2_control" -> 6
      [] line \in {"top5_control", "top5_moderate"} -> 7
      [] line = "top10_high_concentration" -> 8
      [] line \in {"liquidity_unknown", "liquidity_very_low", "liquidity_moderate"} -> 9
      [] line \in {"age_unknown", "age_very_new", "age_relatively_new"} -> 10
      [] line = "few_holders" -> 11
      [] line = "metadata_mutable" -> 12
      [] line = "developer_wallet_moves" -> 13
      [] line = "missing_social" -> 14

(* the place of a line in the emission order, in halves of an item: as
   ItemOf, except that the moderate top-5 line stands between the top-10 line
   (item 8) and the liquidity line (item 9) *)
PlaceOf(line) ==
    IF line = "top5_moderate" THEN 17 ELSE 2 * ItemOf(line)

(* C14, as stated: of any two lines of one result, the line of the
   lower-numbered item comes first; any top-5 line (item 7), strong or
   moderate, precedes the top-10 line (item 8), and the confidence-gate
   warning precedes everything. *)
C14_ItemOrderAsStated ==
    (Returned /\ NonSafeList) =>
        \A i, j \in 1..Len(res.factors) :
            i < j => ItemOf(res.factors[i][1]) <= ItemOf(res.factors[j][1])

(* C14, amended: of any two lines of one result, the line of the
   lower-numbered item comes first, except that the moderate top-5 line comes
   after the top-10 line and before the liquidity line; the strong top-5 line
   precedes the top-10 line and the confidence-gate warning precedes
   everything. *)
C14_EmissionOrder ==
    (Returned /\ NonSafeList) =>
        /\ \A i, j \in 1..Len(res.factors) :
               i < j => PlaceOf(res.factors[i][1]) <= PlaceOf(res.factors[j][1])
        /\ \A i \in 1..Len(res.factors) :
               res.factors[i][1] = "confidence_gate" => i = 1

(* a result that has the confidence-gate warning, the top-10 line, the
   moderate top-5 line and a liquidity line, in that order *)
C14_Witness ==
    /\ Returned /\ NonSafeList
    /\ res.factors[1][1] = "confidence_gate"
    /\ \E i, j, k \in 2..Len(res.factors) :
           /\ i < j /\ j < k
           /\ res.factors[i][1] = "top10_high_concentration"
           /\ res.factors[j][1] = "top5_moderate"
           /\ res.factors[k][1] = "liquidity_very_low"

-----------------------------------------------------------------------------
(* the number of lines of the result whose text is one of lines *)
CountLines(lines) ==
    Cardinality({i \in 1..Len(res.factors) : res.factors[i][1] \in lines})

LiquidityLines == {"liquidity_unknown", "liquidity_very_low", "liquidity_moderate"}

AgeLines == {"age_unknown", "age_very_new", "age_relatively_new"}

(* C15: the full-opacity note and the notes "liquidity unknown" and "age
   unknown" never appear together: with age and liquidity both unknown only
   the opacity note is emitted, with exactly one of them unknown only the
   note of that signal and no opacity note; and every result has at most one
   line about the liquidity and at most one line about the age, the opacity
   note counting as both. *)
C15_OpacityReplacesUnknownNotes ==
    Returned =>
        /\ CountLines(LiquidityLines \cup {"full_opacity"}) <= 1
        /\ CountLines(AgeLines \cup {"full_opacity"}) <= 1
        /\ NonSafeList =>
            LET age == token_data.age_days
                liq == token_data.liquidity_usd
            IN  /\ (age = None /\ liq = None) =>
                       /\ CountLines({"full_opacity"}) = 1
                       /\ CountLines(LiquidityLines \cup AgeLines) = 0
                /\ (age # None /\ liq = None) =>
                       /\ CountLines({"liquidity_unknown"}) = 1
                       /\ CountLines({"full_opacity", "age_unknown"}) = 0
                /\ (age = None /\ liq # None) =>
                       /\ CountLines({"age_unknown"}) = 1
                       /\ CountLines({"full_opacity", "liquidity_unknown"}) = 0
                /\ (age # None /\ liq # None) =>
                       CountLines({"full_opacity", "liquidity_unknown",
                                   "age_unknown"}) = 0

(* a token with age and liquidity both unknown, and other signals known, has
   got the opacity note and no line about the liquidity or the age *)
C15_Witness ==
    /\ Returned /\ NonSafeList
    /\ token_data.age_days = None /\ token_data.liquidity_usd = None
    /\ token_data.top1_holder_percent # None
    /\ CountLines({"full_opacity"}) = 1
    /\ CountLines(LiquidityLines \cup AgeLines) = 0
    /\ Len(res.factors) >= 2

-----------------------------------------------------------------------------
(* the token d with the signals of U not observed: None, and 0 for the
   holder count *)
WithUnobserved(d, U) ==
    [f \in DOMAIN d |->
        IF f \notin U THEN d[f] ELSE IF f = "holders" THEN 0 ELSE None]

(* the factor list fs has the confidence-gate warning exactly when, of the
   signals of the token d, k critical and c contextual ones being known,
   28k + 18c < 120; it has it at most once, and in the first place *)
GateAsStated(d, fs) ==
    LET warns == {i \in 1..Len(fs) : fs[i][1] = "confidence_gate"}
    IN  /\ (warns # {}) <=> (28 * KnownCritical(d) + 18 * KnownContext(d) < 120)
        /\ warns \subseteq {1}

(* C16: for an input that is not on the SafeList the confidence-gate warning
   is in factors if and only if 0.7 x safety_completeness + 0.3 x
   context_completeness < 0.5, that is 28k + 18c < 120 for k known critical
   and c known contextual signals; it appears at most once and then first.
   Checked on every input, and for every input rated LOW with all ten
   signals known on each of the 1024 ways of leaving some of them
   unobserved. *)
C16_ConfidenceGate ==
    (Returned /\ NonSafeList) =>
        /\ GateAsStated(token_data, res.factors)
        /\ (res.level = LOW /\ KnownContext(token_data) = 4) =>
               \A U \in SUBSET (critical_signals \cup context_signals) :
                   LET d == WithUnobserved(token_data, U)
                   IN  GateAsStated(d, calculate_risk(thresholds, d).factors)

(* a token with all signals known has been rated LOW; with three critical
   and two contextual signals left unobserved (total completeness exactly
   0.5) it gets no warning, and with one more critical signal unobserved it
   gets the warning, in the first place *)
C16_Witness ==
    /\ Returned /\ NonSafeList
    /\ res.level = LOW /\ KnownContext(token_data) = 4
    /\ LET half == WithUnobserved(token_data,
                       {"mint_authority_exists", "top1_holder_percent",
                        "top5_holders_percent", "age_days", "holders"})
           less == WithUnobserved(half, {"top2_holder_percent"})
       IN  /\ \A i \in 1..Len(calculate_risk(thresholds, half).factors) :
                  calculate_risk(thresholds, half).factors[i][1] # "confidence_gate"
           /\ calculate_risk(thresholds, less).factors[1][1] = "confidence_gate"

-----------------------------------------------------------------------------
(* the five critical signals that have a "data unavailable" note, in the
   order of the notes, each with its note *)
NotedSignals ==
    << <<"mint_authority_exists", "mint_unavailable">>,
       <<"freeze_authority_exists", "freeze_unavailable">>,
       <<"top1_holder_percent", "top1_unavailable">>,
       <<"top2_holder_percent", "top2_unavailable">>,
       <<"top10_holders_percent", "top10_unavailable">> >>

(* the "data unavailable" notes of the result, in the order of the list *)
NotesOf(fs) ==
    SelectSeq(fs, LAMBDA f : \E n \in 1..Len(NotedSignals) : NotedSignals[n][2] = f[1])

(* the notes of the signals of the token that are unknown, in the fixed
   order *)
ExpectedNotes(d) ==
    LET note(n) == IF d[NotedSignals[n][1]] = None
                   THEN << <<NotedSignals[n][2], << >> >> >> ELSE << >>
    IN  note(1) \o note(2) \o note(3) \o note(4) \o note(5)

(* C17: for an input that is not on the SafeList, the "data unavailable"
   note of a critical signal is in factors, once, if and only if that signal
   is unknown, for each of mint authority, freeze authority, top1, top2 and
   top10, the notes standing in that order, whatever the tier and whatever
   the other signals are. *)
C17_UnavailableNotes ==
    (Returned /\ NonSafeList) => NotesOf(res.factors) = ExpectedNotes(token_data)

(* a token whose mint authority and top-10 share are unknown and whose other
   signals are known and safe has been rated MEDIUM with exactly these two
   notes *)
C17_Witness ==
    /\ Returned /\ NonSafeList
    /\ res.level = MEDIUM
    /\ token_data.freeze_authority_exists = Some(FALSE)
    /\ token_data.top1_holder_percent # None
    /\ token_data.top2_holder_percent # None
    /\ res.factors = << <<"mint_unavailable", << >> >>,
                        <<"top10_unavailable", << >> >> >>

-----------------------------------------------------------------------------
(* C18: for every evaluation of an input that is not on the SafeList,
   risk_signals has exactly the ten signal names as keys (six critical, four
   contextual) and the value of each is the value of the field of that name
   of the input, an unknown one staying unknown and not becoming false or 0. *)
C18_SignalsMirrorInput ==
    (Returned /\ NonSafeList) =>
        /\ DOMAIN res.risk_signals = critical_signals \cup context_signals
        /\ Cardinality(DOMAIN res.risk_signals) = 10
        /\ \A s \in DOMAIN res.risk_signals :
               /\ res.risk_signals[s] = token_data[s]
               /\ s # "holders" =>
                      (token_data[s] = None <=> res.risk_signals[s] = None)

(* a token with an unknown mint authority, a freeze authority known to be
   absent and a known top-1 share of 0 has been evaluated, and the three
   values stand in risk_signals as they are *)
C18_Witness ==
    /\ Returned /\ NonSafeList
    /\ token_data.mint_authority_exists = None
    /\ token_data.freeze_authority_exists = Some(FALSE)
    /\ token_data.top1_holder_percent = Some(0)
    /\ res.risk_signals.mint_authority_exists = None
    /\ res.risk_signals.freeze_authority_exists = Some(FALSE)
    /\ res.risk_signals.top1_holder_percent = Some(0)

-----------------------------------------------------------------------------
(* Vocabulary of the explanation step *)

(* what the call of the explanation step returned or raised *)
made == analysis[1].returned

(* the call has ended *)
Explained == analysis # << >>

(* the call returned an AnalysisResult *)
Completed == Explained /\ ~Raises(made)

(* the line is one of the engine's factor lines for the request *)
IsEngineFactor(line) ==
    \E j \in DOMAIN res.factors :
        res.factors[j][1] = line[1] /\ res.factors[j][2] = line[2]

(* the exchange of the OpenRouter provider with the language model failed or
   timed out: no status 200, no content in the body, a failure of the client,
   or a content that is not JSON *)
LLMCallFailed ==
    /\ Explained
    /\ analysis[1].provider = OPENROUTER
    /\ \/ analysis[1].outcome.kind \in {"timeout", "status", "structure", "exception"}
       \/ analysis[1].outcome.content.json = "invalid"

(* C19: the explanation step never alters the tier: whenever an analysis has
   completed, the risk of the AnalysisResult is the level the risk engine
   computed for the request, whatever the response of the language model
   holds and on every path (parsed response, fallback template, mock
   provider). *)
C19_ExplanationKeepsLevel ==
    Completed => made.risk = res.level

-----------------------------------------------------------------------------
(* C20: when the exchange with the language model fails or times out,
   generate_analysis of the OpenRouter provider does not raise: an
   AnalysisResult comes back whose risk is the engine's level and whose why
   entries are all among the engine's factor lines. *)
C20_FailureFallsBackToFactors ==
    LLMCallFailed =>
        /\ ~Raises(made)
        /\ made.risk = res.level
        /\ \A i \in DOMAIN made.why : IsEngineFactor(made.why[i])

-----------------------------------------------------------------------------
(* the language model answered with a content that _parse_response accepts:
   a JSON object whose risk and recommendation are strings or absent and whose
   summary is not empty *)
ParsedResponse ==
    /\ Explained
    /\ analysis[1].provider = OPENROUTER
    /\ analysis[1].outcome.kind = "content"
    /\ LET c == analysis[1].outcome.content
       IN  /\ c.json = "object"
           /\ c.risk.type \in {"absent", "string"}
           /\ c.recommendation.type \in {"absent", "string"}
           /\ c.summary.type = "absent" \/ c.summary.length >= 1

(* the reasons the language model returned, as the decoded JSON value *)
why_raw == analysis[1].outcome.content.why

(* C21: every AnalysisResult returned to the caller has between 1 and 5 why
   entries, however many reasons the language model returned: of a list of
   reasons the first five at most are kept, an empty or missing list gives
   the single entry "reasons not given", a value that is not a list gives one
   entry. *)
C21_WhyIsCapped ==
    Completed =>
        /\ Len(made.why) >= 1
        /\ Len(made.why) <= 5
        /\ ParsedResponse =>
              made.why = CASE why_raw.type = "list" /\ why_raw.items # << >> ->
                                [i \in 1..(IF Len(why_raw.items) < 5
                                           THEN Len(why_raw.items) ELSE 5) |->
                                    why_raw.items[i]]
                           [] why_raw.type = "string" ->
                                <<<<"text", <<why_raw.text>>>>>>
                           [] OTHER -> <<ReasonsNotGiven>>

(* the language model returned six reasons and the caller received an
   AnalysisResult with the first five of them *)
C21_Witness ==
    /\ Completed
    /\ ParsedResponse
    /\ Len(why_raw.items) = 6
    /\ made.why = [i \in 1..5 |-> LLMReason(i)]

-----------------------------------------------------------------------------
(* Vocabulary of the orchestrated request *)

(* the call of analyze that has ended *)
req == request[1]

Analyzed == request # << >>

(* s is a prefix of q *)
IsPrefix(s, q) == Len(s) <= Len(q) /\ \A i \in 1..Len(s) : s[i] = q[i]

(* C22: for one request analyze runs fetch, then risk evaluation, then
   explanation, in that order and each at most once; when the fetch fails
   (provider error, token not found, timeout) neither the risk engine nor the
   explanation step is called and DataFetchError reaches the caller; and the
   risk engine, when called, never raises. *)
C22_AnalyzeOrder ==
    Analyzed =>
        /\ req.calls # << >>
        /\ IsPrefix(req.calls, <<"fetch", "risk", "explain">>)
        /\ req.fetch # "data" =>
              /\ req.calls = <<"fetch">>
              /\ Raises(req.returned)
              /\ req.returned.raised = "DataFetchError"
        /\ req.risk # << >> => ~Raises(req.risk[1])

-----------------------------------------------------------------------------
(* C23: when the provider returns TokenData within the timeout, partial data
   with liquidity_usd and/or age_days unknown included, get_token_data
   returns exactly that TokenData, and the orchestrator calls the risk engine
   with it and reaches the explanation step. *)
C23_PartialDataIsAnalyzed ==
    (Analyzed /\ req.fetch = "data") =>
        /\ ~Raises(req.fetched)
        /\ req.fetched = token_data
        /\ req.calls = <<"fetch", "risk", "explain">>

-----------------------------------------------------------------------------
(* the provider returned a TokenData *)
Fetched == Analyzed /\ ~Raises(req.returned)

(* the holder data is unavailable: no response, no accounts, or no supply to
   relate them to *)
HolderDataUnavailable ==
    \/ req.holders_result.kind = "none"
    \/ req.holders_result.data = << >>
    \/ req.asset_result.kind = "none"
    \/ req.asset_result.data.supply = 0

AssetDataUnavailable == req.asset_result.kind = "none"

(* the field f of the object td is there and holds the unknown marker *)
IsUnknown(td, f) == f \in DOMAIN td /\ td[f] = None

(* C24: the data provider marks every field it could not observe as unknown
   and never puts a default that reads as a real 0 or false: without holder
   data (or with a supply of 0) the top-1, top-2, top-5 and top-10 percentages
   of the TokenData are all unknown, and without asset data mint authority,
   freeze authority and metadata_mutable are unknown. *)
C24_UnobservedIsUnknown ==
    Fetched =>
        /\ HolderDataUnavailable =>
              \A f \in {"top1_holder_percent", "top2_holder_percent",
                        "top5_holders_percent", "top10_holders_percent"} :
                  IsUnknown(req.returned, f)
        /\ AssetDataUnavailable =>
              \A f \in {"mint_authority_exists", "freeze_authority_exists",
                        "metadata_mutable"} :
                  IsUnknown(req.returned, f)

-----------------------------------------------------------------------------
(* C25: for every exception the wrapped handler raises (ValidationError,
   DataFetchError, LLMError, another TokenBrainError, any other Exception)
   the middleware does not re-raise, returns None and sends exactly one
   message when the update carries a message, a failure to send being
   swallowed; when the handler succeeds the middleware returns the handler's
   result and sends no message. *)
C25_MiddlewareContainsErrors ==
    Analyzed =>
        /\ req.escaped = ""
        /\ req.handled.kind = "raises" =>
              /\ req.returned = None
              /\ req.event = "message" => Len(req.answers) = 1
              /\ Len(req.answers) <= 1
        /\ req.handled.kind = "returns" =>
              /\ req.returned = req.handled.value
              /\ req.answers = << >>

(* the handler raised LLMError on an update that carries a message, the
   answer could not be delivered, and the middleware returned None after the
   one attempt *)
C25_Witness ==
    /\ Analyzed
    /\ req.handled.kind = "raises"
    /\ req.handled.error.raised = "LLMError"
    /\ req.event = "message"
    /\ req.answer_fails
    /\ req.escaped = ""
    /\ req.returned = None
    /\ Len(req.answers) = 1

-----------------------------------------------------------------------------
(* C26: any interleaving of concurrent evaluate calls on one shared
   RiskService yields, for each call, exactly the result of evaluating its
   input alone; no call modifies its input, the thresholds or the SafeList,
   and the engine keeps no state between calls. *)
C26_ResultsAsAlone ==
    \A i \in Callers :
       LET call == req.calls[i]
       IN  /\ call.pc = "returned" =>
                call.returned = Some(calculate_risk(thresholds, call.token_data))
           /\ call.pc = "called" => req.frames[i] = NoFrame

C26_InputsKept ==
    /\ thresholds' = thresholds
    /\ \A i \in Callers :
          request'[1].calls[i].token_data = request[1].calls[i].token_data

C26_ConcurrentCallsAreIndependent ==
    [](C26_ResultsAsAlone) /\ [][C26_InputsKept]_vars

(* two calls with different tokens outside the SafeList ran while the other
   one was between two of its statements, and came back with different
   levels *)
C26_Witness ==
    /\ req.calls[1].pc = "returned"
    /\ req.calls[2].pc = "returned"
    /\ req.calls[1].overlapped
    /\ req.calls[2].overlapped
    /\ req.calls[1].token_data.address \notin SAFE_PROTOCOL_TOKENS
    /\ req.calls[2].token_data.address \notin SAFE_PROTOCOL_TOKENS
    /\ Val(req.calls[1].returned).level = HIGH
    /\ Val(req.calls[2].returned).level = LOW

-----------------------------------------------------------------------------
(* the recommendation of the language model's response, as the decoded JSON
   value *)
rec_raw == analysis[1].outcome.content.recommendation

(* the language model's response was parsed and its recommendation is one of
   avoid, caution, ok (in any case of letters) *)
ValidRecommendationGiven ==
    /\ ParsedResponse
    /\ rec_raw.type = "string"
    /\ lower(rec_raw.text) \in {AVOID, CAUTION, OK}

(* C27: whenever the language model's recommendation is not one of
   avoid/caution/ok (invalid or missing), and on every fallback-template or
   mock result, the recommendation of the AnalysisResult is derived from its
   risk level: HIGH gives avoid, MEDIUM gives caution, LOW gives ok. *)
C27_RecommendationFollowsRisk ==
    (Completed /\ ~ValidRecommendationGiven) =>
        made.recommendation = recommendations(made.risk)

-----------------------------------------------------------------------------
(* a HIGH trigger other than the two-whales rule holds: _is_high_risk of the
   token with top2_holder_percent unknown, the one field only that rule
   reads *)
HighTriggerOtherThanTwoWhales(t, data) ==
    _is_high_risk(t, [data EXCEPT !.top2_holder_percent = None])

(* the two-whales rule: top1 + top2 above top1_top2_high_risk *)
TwoWhales(t, data) ==
    /\ ~IsNone(data.top1_holder_percent)
    /\ ~IsNone(data.top2_holder_percent)
    /\ Val(data.top1_holder_percent) + Val(data.top2_holder_percent)
           > t.top1_top2_high_risk

(* the shares are consistent: the two largest holders together hold no more
   than the five largest *)
ConsistentShares(data) ==
    (/\ ~IsNone(data.top1_holder_percent)
     /\ ~IsNone(data.top2_holder_percent)
     /\ ~IsNone(data.top5_holders_percent))
    => Val(data.top1_holder_percent) + Val(data.top2_holder_percent)
           <= Val(data.top5_holders_percent)

(* the level with the LOW requirements tested before the HIGH triggers *)
LevelLowFirst(t, data) ==
    IF _is_low_risk(t, data) THEN LOW
    ELSE IF _is_high_risk(t, data) THEN HIGH
    ELSE MEDIUM

(* C28: under the default thresholds, for a token outside the SafeList that
   meets all LOW requirements no HIGH trigger other than the two-whales rule
   (top1 + top2 > 40) holds; when the shares are consistent
   (top1 + top2 <= top5) the LOW requirements and the HIGH triggers exclude
   each other, and the level is the same whichever of the two is tested
   first. *)
C28_LowExcludesHigh ==
    (/\ Returned
     /\ thresholds = RiskThresholds
     /\ token_data.address \notin SAFE_PROTOCOL_TOKENS)
    => /\ _is_low_risk(thresholds, token_data) =>
             ~HighTriggerOtherThanTwoWhales(thresholds, token_data)
       /\ ConsistentShares(token_data) =>
             /\ ~(_is_low_risk(thresholds, token_data)
                  /\ _is_high_risk(thresholds, token_data))
             /\ result[1].level = LevelLowFirst(thresholds, token_data)

(* a token on every LOW limit whose two largest holders hold 40.01%, more
   than its five largest: all LOW requirements are met, the two-whales rule
   alone fires and the level is HIGH *)
C28_Witness ==
    /\ Returned
    /\ thresholds = RiskThresholds
    /\ token_data.address \notin SAFE_PROTOCOL_TOKENS
    /\ _is_low_risk(thresholds, token_data)
    /\ TwoWhales(thresholds, token_data)
    /\ ~ConsistentShares(token_data)
    /\ result[1].level = HIGH

-----------------------------------------------------------------------------
(* the token with the attributes the engine does not read for its result:
   name, symbol, chain, tx_count_24h and the other rugpull flags *)
Described(data, text, n, flag) ==
    [f \in DOMAIN data \cup {"name", "symbol", "chain", "tx_count_24h",
                             "new_contract", "low_liquidity",
                             "centralized_holders"} |->
        CASE f \in DOMAIN data -> data[f]
          [] f \in {"name", "symbol", "chain"} -> text
          [] f = "tx_count_24h" -> n
          [] OTHER -> flag]

(* tokens that differ from data only in name, symbol, chain, tx_count_24h,
   metadata_mutable, rugpull_flags and social: data with a description, and
   data with every flag and link reversed, a description and any value of
   metadata_mutable (the inputs themselves vary these fields one at a time) *)
SameButDescription(data) ==
    { Described(data, "BONK", 1500, TRUE) }
    \cup { Described([data EXCEPT
                         !.metadata_mutable = mm,
                         !.developer_wallet_moves = ~data.developer_wallet_moves,
                         !.twitter_exists = ~data.twitter_exists,
                         !.telegram_exists = ~data.telegram_exists,
                         !.website_valid = ~data.website_valid],
                     "BONK", 1500, TRUE) :
              mm \in {None, Some(TRUE), Some(FALSE)} }

(* C29 as stated: two inputs that differ only in name, symbol, chain,
   tx_count_24h, metadata_mutable, rugpull_flags or social receive the same
   level and the same safety_completeness, and nothing of the result but
   factors and, for metadata_mutable, context_completeness differs. *)
C29_OnlyFactorsAndContextDiffer ==
    Returned =>
        \A other \in SameButDescription(token_data) :
            LET r == calculate_risk(thresholds, other)
            IN  /\ r.level = res.level
                /\ r.safety_completeness = res.safety_completeness
                /\ other.metadata_mutable = token_data.metadata_mutable =>
                      r.context_completeness = res.context_completeness
                /\ r.risk_signals = res.risk_signals

(* C29, amended: two inputs that differ only in name, symbol, chain,
   tx_count_24h, metadata_mutable, rugpull_flags or social receive the same
   level and the same safety_completeness; of the result only factors and,
   for metadata_mutable, context_completeness and the metadata_mutable entry
   of risk_signals differ. *)
C29_LevelIgnoresDescription ==
    Returned =>
        \A other \in SameButDescription(token_data) :
            LET r == calculate_risk(thresholds, other)
            IN  /\ r.level = res.level
                /\ r.safety_completeness = res.safety_completeness
                /\ other.metadata_mutable = token_data.metadata_mutable =>
                      r.context_completeness = res.context_completeness
                /\ IF token_data.address \in SAFE_PROTOCOL_TOKENS
                   THEN r = res
                   ELSE /\ r.risk_signals.metadata_mutable = other.metadata_mutable
                        /\ [r.risk_signals EXCEPT !.metadata_mutable =
                                                     token_data.metadata_mutable]
                               = res.risk_signals

(* a LOW token outside the SafeList with immutable metadata, all social
   links and a quiet developer wallet: the same token with unknown metadata,
   no links, a moving developer wallet and a name is LOW too, with other
   factors and a lower context_completeness *)
C29_Witness ==
    /\ Returned
    /\ token_data.address \notin SAFE_PROTOCOL_TOKENS
    /\ res.level = LOW
    /\ token_data.metadata_mutable = Some(FALSE)
    /\ ~token_data.developer_wallet_moves
    /\ token_data.twitter_exists
    /\ token_data.telegram_exists
    /\ token_data.website_valid
    /\ LET other == Described([token_data EXCEPT !.metadata_mutable = None,
                                                 !.developer_wallet_moves = TRUE,
                                                 !.twitter_exists = FALSE,
                                                 !.telegram_exists = FALSE,
                                                 !.website_valid = FALSE],
                              "BONK", 1500, TRUE)
           r == calculate_risk(thresholds, other)
       IN  /\ other \in SameButDescription(token_data)
           /\ r.level = LOW
           /\ r.factors # res.factors
           /\ r.context_completeness < res.context_completeness

-----------------------------------------------------------------------------
(* C30: the collaborators fail only with their own typed error:
   get_token_data completes only by returning TokenData or raising
   DataFetchError (a timeout and any unexpected exception of the provider
   are converted to DataFetchError), and explain completes only by returning
   an AnalysisResult or raising LLMError (a timeout and any unexpected
   exception of the provider are converted to LLMError); no other exception
   type leaves either call. *)
C30_TypedErrorsOnly ==
    /\ Analyzed =>
          /\ IF Raises(req.returned)
             THEN req.returned = Raise("DataFetchError")
             ELSE req.returned = TokenData(token_data)
          /\ req.fetch \in {"timeout", "exception"} =>
                req.returned = Raise("DataFetchError")
    /\ Explained =>
          /\ IF Raises(made)
             THEN made = Raise("LLMError")
             ELSE DOMAIN made = {"risk", "summary", "why", "recommendation"}
          /\ analysis[1].outcome = Late => made = Raise("LLMError")

(* the token provider failed with an exception that is no DataFetchError and
   get_token_data raised DataFetchError; the explanation provider did not
   answer in time and explain raised LLMError *)
C30_Witness ==
    /\ Analyzed
    /\ req.fetch = "exception"
    /\ provider_get_token_data(req.fetch, TokenData(token_data)) = Raise("RuntimeError")
    /\ req.returned = Raise("DataFetchError")
    /\ Explained
    /\ analysis[1].outcome = Late
    /\ made = Raise("LLMError")

====
